---- MODULE Spec2Model ----
(***************************************************************************)
(* Sentence-level deduplication of datatrove-ru                            *)
(* (src/src/datatrove/pipeline/dedup/sentence_dedup.py):                   *)
(*   stage 1  SentenceDedupSignature  per shard, writes NNNNN.c4_sig       *)
(*   stage 2  SentenceFindDedups      one task, writes NNNNN.c4_dup        *)
(*   stage 3  SentenceDedupFilter     per shard, drops flagged sentences   *)
(*                                                                         *)
(* Text is abstracted as follows.  A sentence is one of a few sentence     *)
(* kinds; two sentences of the same kind have the same simplified content  *)
(* and the same number of word tokens.  A content is the sequence of its   *)
(* sentences plus a flag telling whether the raw text separates them by    *)
(* something else than one single space (a newline, two spaces).           *)
(*                                                                         *)
(* A Python int that may exceed TLC's integers (the u64 hash, the u32      *)
(* doc_id) is, at the byte level, a little-endian sequence of 16-bit       *)
(* words; the stages themselves work on naturals.                          *)
(***************************************************************************)
EXTENDS Integers, Sequences, FiniteSets, TLC

----------------------------------------------------------------------------
(* Bounds of the model *)

NumShards == 2
MaxDocs == 2
MaxCorpusDocs == 3
MaxSents == 3
NumKinds == 2
MaxRecs == 2
MaxReruns == 1

(* Configuration of the stage instances *)

n_sentences == 2
min_doc_words == 50

None == -1

Shards == 0 .. (NumShards - 1)
Kinds == 1 .. NumKinds

----------------------------------------------------------------------------
(* Generic helpers *)

RECURSIVE SumSeq(_)
SumSeq(s) == IF s = <<>> THEN 0 ELSE Head(s) + SumSeq(Tail(s))

RECURSIVE Concat(_)
Concat(ss) == IF ss = <<>> THEN <<>> ELSE Head(ss) \o Concat(Tail(ss))

SeqsUpTo(S, lo, hi) == UNION {[1 .. k -> S] : k \in lo .. hi}

Range(s) == {s[i] : i \in DOMAIN s}

\* Python tuple comparison a < b: the first position where the two differ decides
TupleLt(a, b) ==
    \E i \in 1 .. Len(a) :
        /\ a[i] < b[i]
        /\ \A j \in 1 .. (i - 1) : a[j] = b[j]

----------------------------------------------------------------------------
(* Text: nltk's tokenizers and str.join on the abstracted content *)

WordsOf(k) == 20 + 5 * k

sent_tokenize(content) == content.sents

word_tokenize(content) == SumSeq([i \in DOMAIN content.sents |-> WordsOf(content.sents[i])])

Join(sentences) == [sents |-> sentences, raw |-> FALSE]

RECURSIVE StrHash(_)
StrHash(window) ==
    IF window = <<>> THEN 0
    ELSE Head(window) + (NumKinds + 1) * StrHash(Tail(window))

----------------------------------------------------------------------------
(* struct.pack / struct.unpack, little-endian, unsigned *)

RECURSIVE PackLE(_, _)
PackLE(v, nbytes) ==
    IF nbytes = 0 THEN <<>> ELSE <<v % 256>> \o PackLE(v \div 256, nbytes - 1)

RECURSIVE UnpackLE(_)
UnpackLE(by) == IF by = <<>> THEN 0 ELSE Head(by) + 256 * UnpackLE(Tail(by))

\* a wide value (16-bit words, least significant first) to its bytes and back
StructPack(wide) == Concat([i \in DOMAIN wide |-> PackLE(wide[i], 2)])

\* the bytes taken most significant first (">" for "<")
StructUnpack_bigEndian(by) ==
    [i \in 1 .. (Len(by) \div 2) |->
        UnpackLE(<<by[Len(by) - 2 * i + 2], by[Len(by) - 2 * i + 1]>>)]

StructUnpack(by) ==
    [i \in 1 .. (Len(by) \div 2) |-> UnpackLE(SubSeq(by, 2 * i - 1, 2 * i))]

RECURSIVE ToWide(_, _)
ToWide(v, nwords) ==
    IF nwords = 0 THEN <<>> ELSE <<v % 65536>> \o ToWide(v \div 65536, nwords - 1)

RECURSIVE FromWide(_)
FromWide(w) == IF w = <<>> THEN 0 ELSE Head(w) + 65536 * FromWide(Tail(w))

----------------------------------------------------------------------------
(* Binary records: save_hashes writes them, read_sigs / read_dups read them *)

SigWidths == <<8, 4, 2>>
DupWidths == <<4, 2>>

Min(a, b) == IF a < b THEN a ELSE b

\* the bytes of one record: every field packed and written in turn
WriteRecord(fields) == Concat([i \in DOMAIN fields |-> StructPack(fields[i])])

\* one turn of the reader's "while True" loop at byte offset pos: f.read(b) for
\* every field; an empty read returns, a short one makes struct.unpack raise
RECURSIVE ReadRecord(_, _, _)
ReadRecord(by, pos, widths) ==
    IF widths = <<>> THEN [kind |-> "rec", vals |-> <<>>, pos |-> pos]
    ELSE LET b == Head(widths)
             chunk == SubSeq(by, pos + 1, Min(pos + b, Len(by)))
         IN  IF chunk = <<>> THEN [kind |-> "stop", vals |-> <<>>, pos |-> pos]
             ELSE IF Len(chunk) < b THEN [kind |-> "error", vals |-> <<>>, pos |-> pos]
             ELSE LET rest == ReadRecord(by, pos + b, Tail(widths))
                  IN  [rest EXCEPT !.vals = <<StructUnpack(chunk)>> \o rest.vals]

\* every record of a file, as a generator run to its end would yield them
RECURSIVE ReadAll(_, _, _)
ReadAll(by, pos, widths) ==
    LET r == ReadRecord(by, pos, widths)
    IN  IF r.kind = "rec" THEN <<r.vals>> \o ReadAll(by, r.pos, widths) ELSE <<>>

----------------------------------------------------------------------------
(* HashSig and stage 1, SentenceDedupSignature *)

HashSig(h, d, s, f) == [hash_value |-> h, doc_id |-> d, sent_id |-> s, file_id |-> f]

HashSigLt(a, b) ==
    TupleLt(<<a.hash_value, a.file_id, a.doc_id, a.sent_id>>,
            <<b.hash_value, b.file_id, b.doc_id, b.sent_id>>)

\* list.sort(): stable, by __lt__
RECURSIVE InsertSig(_, _)
InsertSig(x, sorted) ==
    IF sorted = <<>> THEN <<x>>
    ELSE IF HashSigLt(x, Head(sorted)) THEN <<x>> \o sorted
    ELSE <<Head(sorted)>> \o InsertSig(x, Tail(sorted))

\* the signatures written as they were emitted
SortSigs_unsorted(l) == l

RECURSIVE SortSigs(_)
SortSigs(l) ==
    IF l = <<>> THEN <<>>
    ELSE InsertSig(l[Len(l)], SortSigs(SubSeq(l, 1, Len(l) - 1)))

\* a document of exactly n_sentences sentences taken as too short
get_hashes_strict(doc, doc_idx) ==
    LET sentences == sent_tokenize(doc.content)
    IN  IF Len(sentences) <= n_sentences THEN <<>>
        ELSE [i \in 1 .. (Len(sentences) - n_sentences + 1) |->
                 HashSig(StrHash(SubSeq(sentences, i, i + n_sentences - 1)),
                         doc_idx, i - 1, None)]

get_hashes(doc, doc_idx) ==
    LET sentences == sent_tokenize(doc.content)
    IN  IF Len(sentences) < n_sentences THEN <<>>
        ELSE [i \in 1 .. (Len(sentences) - n_sentences + 1) |->
                 HashSig(StrHash(SubSeq(sentences, i, i + n_sentences - 1)),
                         doc_idx, i - 1, None)]

SigBytes(hs) ==
    WriteRecord(<<ToWide(hs.hash_value, 4), ToWide(hs.doc_id, 2), ToWide(hs.sent_id, 1)>>)

save_hashes(sigs) == Concat([i \in DOMAIN sigs |-> SigBytes(sigs[i])])

Put(f, k, v) == [x \in (DOMAIN f) \cup {k} |-> IF x = k THEN v ELSE f[x]]

----------------------------------------------------------------------------
(* State *)

VARIABLES
    data,        \* data[r]: the documents of shard r, in arrival order
    signatures,  \* signatures[w]: self.signatures of stage-1 instance w
    sig_files,   \* rank -> bytes of NNNNN.c4_sig, for the files that exist
    find,        \* stage 2: pc, sig_files listing, reader offsets, pq, last, and
                 \* the records heappop has returned so far
    dup_files,   \* file id -> bytes of NNNNN.c4_dup, for the files that exist
    filt,        \* filt[r]: stage 3 on shard r: pc, idx, processed documents
    history,     \* history[r]: input and output of the earlier stage-3 runs on r
    codec,       \* a record file being written, then read back
    quality,     \* a heuristic filter's filter() applied to one document
    driver,      \* BaseFilter.__call__: its position, its output, the sink
    scan,        \* find_all_duplicate: the locals of its loop
    hosts,       \* the-data.py: run() on every host, each with its own "cc"
    reader       \* a reader's generator: its input, its position, what it yielded

\* the heuristic filter family
filterVars == <<quality, driver, scan>>

\* the driver script and the readers
toolVars == <<hosts, reader>>

vars == <<data, signatures, sig_files, find, dup_files, filt, history, codec, filterVars,
          toolVars>>

\* what the dedup stages never touch
otherVars == <<codec, filterVars, toolVars>>

\* SentenceDedupSignature.__call__ of instance w, invoked for shard rank
Signature(w, rank) ==
    LET emitted == Concat([i \in DOMAIN data[rank] |-> get_hashes(data[rank][i], i - 1)])
        sorted == SortSigs(signatures[w] \o emitted)
    IN  /\ signatures' = [signatures EXCEPT ![w] = sorted]
        /\ sig_files' = Put(sig_files, rank, save_hashes(sorted))
        /\ UNCHANGED <<data, find, dup_files, filt, history, otherVars>>

----------------------------------------------------------------------------
(* Stage 2, SentenceFindDedups *)

Perms(S) == {p \in [1 .. Cardinality(S) -> S] : \A i, j \in DOMAIN p : p[i] = p[j] => i = j}

\* data_folder.list_files(".c4_sig"): the signature files, in the order listed
list_files == Perms(DOMAIN sig_files)

\* what read_sigs(file, file_id) yields from a record read
SigOf(vals, file_id) ==
    HashSig(FromWide(vals[1]), FromWide(vals[2]), FromWide(vals[3]), file_id)

\* a list served from its front, as a queue that is no heap would be
HeapTop_front(pq) == 1

\* index of the record heapq.heappop returns: the least under __lt__
HeapTop(pq) == CHOOSE i \in DOMAIN pq : \A j \in DOMAIN pq : ~HashSigLt(pq[j], pq[i])

\* a pop that returns the least record and leaves it in the heap
Remove_keep(s, i) == s

Remove(s, i) == SubSeq(s, 1, i - 1) \o SubSeq(s, i + 1, Len(s))

\* output_folder.open(name): the open file of that name, created empty at first use
OpenOut(files, name) == IF name \in DOMAIN files THEN files ELSE Put(files, name, <<>>)

DupBytes(v) == WriteRecord(<<ToWide(v.doc_id, 2), ToWide(v.sent_id, 1)>>)

\* lines 118-124: list the files, make the readers, seed the heap
FindStart ==
    /\ find.pc = "idle"
    /\ DOMAIN sig_files = Shards
    /\ \E sig_files_listed \in list_files :
         LET k == Len(sig_files_listed)
             first == [i \in 1 .. k |-> ReadRecord(sig_files[sig_files_listed[i]], 0, SigWidths)]
         IN  IF \A i \in 1 .. k : first[i].kind = "rec"
             THEN find' = [pc |-> "loop", listing |-> sig_files_listed,
                           rpos |-> [i \in 1 .. k |-> first[i].pos],
                           pq |-> [i \in 1 .. k |-> SigOf(first[i].vals, i - 1)],
                           last |-> None, popped |-> <<>>]
             ELSE \* next() of an exhausted reader: StopIteration leaves __call__
                  find' = [pc |-> "failed", listing |-> sig_files_listed,
                           rpos |-> [i \in 1 .. k |-> 0], pq |-> <<>>, last |-> None, popped |-> <<>>]
    /\ UNCHANGED <<data, signatures, sig_files, dup_files, filt, history, otherVars>>

\* lines 125-137: one turn of "while pq"
FindStep ==
    /\ find.pc = "loop"
    /\ find.pq # <<>>
    /\ LET top == HeapTop(find.pq)
           v == find.pq[top]
           rd == v.file_id + 1
           nxt == ReadRecord(sig_files[find.listing[rd]], find.rpos[rd], SigWidths)
           popped == Remove(find.pq, top)
       IN  /\ dup_files' =
                 IF find.last = v.hash_value
                 THEN LET opened == OpenOut(dup_files, v.file_id)
                      IN  [opened EXCEPT ![v.file_id] = @ \o DupBytes(v)]
                 ELSE dup_files
           /\ find' =
                 CASE nxt.kind = "rec" ->
                        [find EXCEPT !.pq = Append(popped, SigOf(nxt.vals, v.file_id)),
                                     !.rpos[rd] = nxt.pos,
                                     !.last = v.hash_value,
                                     !.popped = Append(@, v)]
                   [] nxt.kind = "stop" ->
                        [find EXCEPT !.pq = popped, !.last = v.hash_value,
                                     !.popped = Append(@, v)]
                   [] OTHER ->
                        [find EXCEPT !.pc = "failed", !.pq = popped, !.last = v.hash_value,
                                     !.popped = Append(@, v)]
    /\ UNCHANGED <<data, signatures, sig_files, filt, history, otherVars>>

\* line 138: the heap is empty, output_folder.close()
FindEnd ==
    /\ find.pc = "loop"
    /\ find.pq = <<>>
    /\ find' = [find EXCEPT !.pc = "done"]
    /\ UNCHANGED <<data, signatures, sig_files, dup_files, filt, history, otherVars>>

----------------------------------------------------------------------------
(* Stage 3, SentenceDedupFilter *)

\* data_folder.get_files_shard(rank, world_size): the duplicate files of the shard
get_files_shard(rank) == IF rank \in DOMAIN dup_files THEN <<dup_files[rank]>> ELSE <<>>

\* read_dups(file): the (doc_id, sent_id) tuples of a duplicate file
read_dups(file) ==
    LET recs == ReadAll(file, 0, DupWidths)
    IN  [i \in DOMAIN recs |-> <<FromWide(recs[i][1]), FromWide(recs[i][2])>>]

\* merge_docs(sorted(...)): doc_id -> the set of its flagged sentence ids
merge_docs(dups) ==
    [d \in {dups[i][1] : i \in DOMAIN dups} |->
        {dups[i][2] : i \in {j \in DOMAIN dups : dups[j][1] = d}}]

\* the flags of the next document, an index that counts from one
DuGet_next(du_file, idx) == IF idx + 1 \in DOMAIN du_file THEN du_file[idx + 1] ELSE {}

\* du_file.get(idx): None (here the empty set, as falsy as None) when absent
DuGet(du_file, idx) == IF idx \in DOMAIN du_file THEN du_file[idx] ELSE {}

RECURSIVE KeepSents(_, _, _)
KeepSents(sentences, idx, du_lines) ==
    IF sentences = <<>> THEN <<>>
    ELSE (IF du_lines = {} \/ idx \notin du_lines THEN <<Head(sentences)>> ELSE <<>>)
         \o KeepSents(Tail(sentences), idx + 1, du_lines)

\* a document with no flagged sentence left as it is, not rejoined
FilterContent_asIs(doc, du_lines) ==
    IF du_lines = {} THEN doc.content
    ELSE Join(KeepSents(sent_tokenize(doc.content), 0, du_lines))

\* filter(), line 171-173: the new doc.content
FilterContent(doc, du_lines) == Join(KeepSents(sent_tokenize(doc.content), 0, du_lines))

\* filter(), line 174-176: the verdict on the new content
FilterKeeps(content) == word_tokenize(content) > min_doc_words

\* lines 186-188, run when the generator is first advanced
FilterStart(rank) ==
    /\ filt[rank].pc = "idle"
    /\ find.pc = "done"
    /\ filt' = [filt EXCEPT ![rank].pc =
                   IF Len(get_files_shard(rank)) = 1 THEN "run" ELSE "failed"]
    /\ UNCHANGED <<data, signatures, sig_files, find, dup_files, history, otherVars>>

\* lines 189-194: one turn of the loop over the documents
FilterDoc(rank) ==
    /\ filt[rank].pc = "run"
    /\ filt[rank].idx < Len(data[rank])
    /\ LET idx == filt[rank].idx
           du_file == merge_docs(read_dups(get_files_shard(rank)[1]))
           content == FilterContent(data[rank][idx + 1], DuGet(du_file, idx))
       IN  filt' = [filt EXCEPT ![rank].idx = idx + 1,
                                ![rank].seen = Append(@, [content |-> content,
                                                          is_kept |-> FilterKeeps(content)])]
    /\ UNCHANGED <<data, signatures, sig_files, find, dup_files, history, otherVars>>

FilterEnd(rank) ==
    /\ filt[rank].pc = "run"
    /\ filt[rank].idx = Len(data[rank])
    /\ filt' = [filt EXCEPT ![rank].pc = "done"]
    /\ UNCHANGED <<data, signatures, sig_files, find, dup_files, history, otherVars>>

\* the documents the generator has yielded
Forwarded(rank) ==
    LET kept == SelectSeq(filt[rank].seen, LAMBDA r : r.is_kept)
    IN  [i \in DOMAIN kept |-> [content |-> kept[i].content]]

FilterIdle == [pc |-> "idle", idx |-> 0, seen |-> <<>>]

CodecIdle == [recs |-> <<>>, file |-> <<>>, pos |-> 0, out |-> <<>>, pc |-> "write"]

QualityIdle == [pc |-> "idle"]

DriverIdle == [pc |-> "idle"]

ScanIdle == [pc |-> "idle"]

\* no filter of the family is running
FiltersIdle ==
    /\ quality = QualityIdle
    /\ driver = DriverIdle
    /\ scan = ScanIdle

HostsIdle == [pc |-> "idle"]
ReaderIdle == [pc |-> "idle"]

ToolsIdle ==
    /\ hosts = HostsIdle
    /\ reader = ReaderIdle

----------------------------------------------------------------------------
(* The three stages run over a corpus *)

Contents == {[sents |-> s, raw |-> b] : s \in SeqsUpTo(Kinds, 1, MaxSents), b \in BOOLEAN}

\* a text of fewer than two sentences has no separator
Docs == {[content |-> c] : c \in {x \in Contents : Len(x.sents) < 2 => ~x.raw}}

\* the documents as crawled: their separators are whatever the page had
CrawledDocs == {d \in Docs : Len(d.content.sents) >= 2 => d.content.raw}

DocCount(corpus) == SumSeq([i \in 1 .. NumShards |-> Len(corpus[i - 1])])

Corpora ==
    {c \in [Shards -> SeqsUpTo(CrawledDocs, 1, MaxDocs)] : DocCount(c) <= MaxCorpusDocs}

Init ==
    /\ data \in Corpora
    /\ signatures = [w \in Shards |-> <<>>]
    /\ sig_files = <<>>
    /\ find = [pc |-> "idle", listing |-> <<>>, rpos |-> <<>>, pq |-> <<>>, last |-> None, popped |-> <<>>]
    /\ dup_files = <<>>
    /\ filt = [r \in Shards |-> FilterIdle]
    /\ history = [r \in Shards |-> <<>>]
    /\ codec = CodecIdle
    /\ FiltersIdle
    /\ ToolsIdle

\* every shard has its own worker and stage-1 instance, run once
SignatureStage == \E r \in Shards : r \notin DOMAIN sig_files /\ Signature(r, r)

FilterStage == \E r \in Shards : FilterStart(r) \/ FilterDoc(r) \/ FilterEnd(r)

Next ==
    \/ SignatureStage
    \/ FindStart
    \/ FindStep
    \/ FindEnd
    \/ FilterStage

Spec == Init /\ [][Next]_vars

----------------------------------------------------------------------------
(* Stage 3 alone, on the documents and the duplicate file it is given *)

\* the output of a finished run of stage 3 on shard rank fed to another run
Refeed(rank) ==
    /\ filt[rank].pc = "done"
    /\ Len(history[rank]) < MaxReruns
    /\ history' = [history EXCEPT ![rank] =
                      Append(@, [input |-> data[rank], output |-> Forwarded(rank)])]
    /\ data' = [data EXCEPT ![rank] = Forwarded(rank)]
    /\ filt' = [filt EXCEPT ![rank] = FilterIdle]
    /\ UNCHANGED <<signatures, sig_files, find, dup_files, otherVars>>

\* well-formed duplicate files: none or one record
DupSamples ==
    {<<>>} \cup {DupBytes([doc_id |-> d, sent_id |-> s]) :
                    d \in 0 .. (MaxDocs - 1), s \in 0 .. (MaxSents - 1)}

InitFilter ==
    /\ data \in {[r \in Shards |-> IF r = 0 THEN d ELSE <<>>] : d \in SeqsUpTo(Docs, 1, MaxDocs)}
    /\ signatures = [w \in Shards |-> <<>>]
    /\ sig_files = <<>>
    /\ find = [pc |-> "done", listing |-> <<>>, rpos |-> <<>>, pq |-> <<>>, last |-> None, popped |-> <<>>]
    /\ dup_files \in {[name \in {0} |-> f] : f \in DupSamples}
    /\ filt = [r \in Shards |-> FilterIdle]
    /\ history = [r \in Shards |-> <<>>]
    /\ codec = CodecIdle
    /\ FiltersIdle
    /\ ToolsIdle

NextFilter ==
    \E r \in {0} :
        \/ FilterStart(r)
        \/ FilterDoc(r)
        \/ FilterEnd(r)
        \/ Refeed(r)

SpecFilter == InitFilter /\ [][NextFilter]_vars

----------------------------------------------------------------------------
(* A signature file written record by record, then read back *)

WideSigs ==
    {[hash_value |-> h, doc_id |-> d, sent_id |-> s] :
        h \in {<<0, 0, 0, 0>>, <<513, 1027, 1541, 2055>>, <<65535, 65535, 65535, 65535>>},
        d \in {<<0, 0>>, <<2569, 3083>>, <<65535, 65535>>},
        s \in {<<0>>, <<3597>>, <<65535>>}}

\* save_hashes, lines 60-63: one turn of the loop over the signatures
SaveHash ==
    /\ codec.pc = "write"
    /\ Len(codec.recs) < MaxRecs
    /\ \E hs \in WideSigs :
         codec' = [codec EXCEPT
                      !.recs = Append(@, hs),
                      !.file = @ \o WriteRecord(<<hs.hash_value, hs.doc_id, hs.sent_id>>)]
    /\ UNCHANGED <<data, signatures, sig_files, find, dup_files, filt, history, filterVars, toolVars>>

\* save_hashes, line 64: output_folder.close()
SaveClose ==
    /\ codec.pc = "write"
    /\ codec' = [codec EXCEPT !.pc = "read"]
    /\ UNCHANGED <<data, signatures, sig_files, find, dup_files, filt, history, filterVars, toolVars>>

\* read_sigs, lines 98-105: the generator advanced once
ReadSig ==
    /\ codec.pc = "read"
    /\ LET r == ReadRecord(codec.file, codec.pos, SigWidths)
       IN  codec' =
               CASE r.kind = "rec" ->
                      [codec EXCEPT !.pos = r.pos,
                                    !.out = Append(@, [hash_value |-> r.vals[1],
                                                       doc_id |-> r.vals[2],
                                                       sent_id |-> r.vals[3]])]
                 [] r.kind = "stop" -> [codec EXCEPT !.pc = "done"]
                 [] OTHER -> [codec EXCEPT !.pc = "error"]
    /\ UNCHANGED <<data, signatures, sig_files, find, dup_files, filt, history, filterVars, toolVars>>

InitCodec ==
    /\ data = [r \in Shards |-> <<>>]
    /\ signatures = [w \in Shards |-> <<>>]
    /\ sig_files = <<>>
    /\ find = [pc |-> "idle", listing |-> <<>>, rpos |-> <<>>, pq |-> <<>>, last |-> None, popped |-> <<>>]
    /\ dup_files = <<>>
    /\ filt = [r \in Shards |-> FilterIdle]
    /\ history = [r \in Shards |-> <<>>]
    /\ codec = CodecIdle
    /\ FiltersIdle
    /\ ToolsIdle

NextCodec ==
    \/ SaveHash
    \/ SaveClose
    \/ ReadSig

SpecCodec == InitCodec /\ [][NextCodec]_vars

----------------------------------------------------------------------------
(* Stage 2: what the signature files hold and what the duplicate files got *)

FileIds == 0 .. (Len(find.listing) - 1)

\* the records of the signature file listed at position shard, with the
\* shard_id the reader gives them
FileSigs(shard) ==
    LET recs == ReadAll(sig_files[find.listing[shard + 1]], 0, SigWidths)
    IN  [i \in DOMAIN recs |->
            [hash |-> FromWide(recs[i][1]), shard |-> shard,
             doc |-> FromWide(recs[i][2]), sent |-> FromWide(recs[i][3])]]

AllSigs == UNION {Range(FileSigs(f)) : f \in FileIds}

\* the total order (hash_value, shard_id, doc_id, sentence_id)
TotalOrderLt(a, b) ==
    \/ a.hash < b.hash
    \/ a.hash = b.hash /\ a.shard < b.shard
    \/ a.hash = b.hash /\ a.shard = b.shard /\ a.doc < b.doc
    \/ a.hash = b.hash /\ a.shard = b.shard /\ a.doc = b.doc /\ a.sent < b.sent

IsCanonical(x, all) == \A y \in all : y.hash = x.hash => ~TotalOrderLt(y, x)

\* the (doc_id, sentence_id) pairs in the duplicate file of the given name
Written(name) ==
    IF name \in DOMAIN dup_files
    THEN LET recs == ReadAll(dup_files[name], 0, DupWidths)
         IN  [i \in DOMAIN recs |-> <<FromWide(recs[i][1]), FromWide(recs[i][2])>>]
    ELSE <<>>

TimesIn(x, pairs) == Cardinality({i \in DOMAIN pairs : pairs[i] = <<x.doc, x.sent>>})

FlaggedOfRank ==
    UNION {{<<find.listing[f + 1], Written(f)[i]>> : i \in DOMAIN Written(f)} : f \in FileIds}

\* the records of every shard's signature file, with the shard's rank as shard_id
RankSigs ==
    UNION {{[hash |-> FromWide(rec[1]), shard |-> r,
             doc |-> FromWide(rec[2]), sent |-> FromWide(rec[3])] :
               rec \in Range(ReadAll(sig_files[r], 0, SigWidths))} : r \in DOMAIN sig_files}

\* C2: of the records that share a hash value all are flagged but the one with
\* the least (shard, doc_id, sentence_id), and which records of which shard's
\* file are flagged does not depend on the order in which the files are listed.
C2_OutcomeIndependentOfListing ==
    find.pc = "done" =>
        LET all == RankSigs
        IN  FlaggedOfRank = {<<x.shard, <<x.doc, x.sent>>>> : x \in {y \in all : ~IsCanonical(y, all)}}

\* C4: when stage 2 is done every shard that has a signature file has its
\* duplicate file, so that the assertion of stage 3 holds for every shard.
C4_OneDupFilePerShard ==
    /\ find.pc = "done" => \A r \in DOMAIN sig_files : r \in DOMAIN dup_files
    /\ \A r \in Shards : filt[r].pc # "failed"

----------------------------------------------------------------------------
(* Stage 3: what it did to the documents it has processed *)

\* the sentence ids the duplicate file of shard r flags for doc_id k
FlaggedIn(r, k) ==
    {Written(r)[i][2] : i \in {j \in DOMAIN Written(r) : Written(r)[j][1] = k}}

NthOf(S, j) == CHOOSE i \in S : Cardinality({x \in S : x < i}) = j - 1

\* the sentences of s at the 0-based indexes that are not in flagged, in order
Unflagged(s, flagged) ==
    LET keep == {i \in DOMAIN s : (i - 1) \notin flagged}
    IN  [j \in 1 .. Cardinality(keep) |-> s[NthOf(keep, j)]]

WordCount(sents) == SumSeq([i \in DOMAIN sents |-> WordsOf(sents[i])])

\* C5: the text stage 3 leaves the document at position k of its shard with is
\* made of the sentences whose index the shard's duplicate file does not flag for
\* doc_id k, in their order, joined by single spaces; all of them when it flags
\* none for k.
C5_FilterDropsFlaggedSentences ==
    \A r \in Shards :
        \A k \in DOMAIN filt[r].seen :
            filt[r].seen[k].content =
                [sents |-> Unflagged(data[r][k].content.sents, FlaggedIn(r, k - 1)),
                 raw |-> FALSE]

C5_Witness ==
    \E r \in Shards :
        \E k1, k2 \in DOMAIN filt[r].seen :
            /\ FlaggedIn(r, k1 - 1) # {}
            /\ FlaggedIn(r, k2 - 1) = {}
            /\ FlaggedIn(r, k1 - 1) # FlaggedIn(r, k1)
            /\ Len(filt[r].seen[k1].content.sents) \in 1 .. (Len(data[r][k1].content.sents) - 1)
            /\ filt[r].seen[k2].content.sents = data[r][k2].content.sents

\* C6: stage 3 drops a document iff its rejoined text has fewer words than
\* min_doc_words, and forwards it when it has min_doc_words words or more.
C6_DroppedIffBelowMinWords ==
    \A r \in Shards :
        \A k \in DOMAIN filt[r].seen :
            filt[r].seen[k].is_kept <=> WordCount(filt[r].seen[k].content.sents) >= min_doc_words

\* the occurrences of n-sentence windows in the corpus
Occurrences ==
    UNION {UNION {{[shard |-> r, doc |-> d, sent |-> i,
                    hash |-> StrHash(SubSeq(data[r][d + 1].content.sents,
                                            i + 1, i + n_sentences))] :
                      i \in 0 .. (Len(data[r][d + 1].content.sents) - n_sentences)} :
                    d \in 0 .. (Len(data[r]) - 1)} :
             r \in Shards}

\* an occurrence is kept when its document is forwarded with none of its
\* n sentences removed
KeptOccurrence(o) ==
    /\ filt[o.shard].seen[o.doc + 1].is_kept
    /\ FlaggedIn(o.shard, o.doc) \cap (o.sent .. (o.sent + n_sentences - 1)) = {}

\* C3: stage 1 on every shard, stage 2, stage 3 on every shard: of the windows
\* whose hash occurs more than once in the corpus exactly one occurrence is kept,
\* the least under the total order, and every other one is discarded.
C3_OneOccurrenceKept ==
    (\A r \in Shards : filt[r].pc = "done") =>
        LET occ == Occurrences
        IN  \A o \in occ :
                (\E p \in occ : p # o /\ p.hash = o.hash) =>
                    (KeptOccurrence(o) <=> IsCanonical(o, occ))

----------------------------------------------------------------------------
(* Stage 1: the signatures of a shard and its signature file *)

\* C9: with window length n a document of L sentences gets no signature when
\* L < n, one when L = n, and in general the L - n + 1 signatures of sentence ids
\* 0 .. L - n, all with the 0-based position of the document in its shard as doc_id.
C9_SignaturesPerDocument ==
    \A r \in DOMAIN sig_files :
        LET sigs == signatures[r]
        IN  /\ \A i \in DOMAIN sigs : sigs[i].doc_id \in 0 .. (Len(data[r]) - 1)
            /\ \A d \in 0 .. (Len(data[r]) - 1) :
                 LET L == Len(data[r][d + 1].content.sents)
                     mine == {i \in DOMAIN sigs : sigs[i].doc_id = d}
                 IN  /\ Cardinality(mine) = (IF L < n_sentences THEN 0 ELSE L - n_sentences + 1)
                     /\ {sigs[i].sent_id : i \in mine} = 0 .. (L - n_sentences)

C9_Witness ==
    /\ DOMAIN sig_files = Shards
    /\ \E r1, r2, r3 \in Shards :
         \E d1 \in DOMAIN data[r1], d2 \in DOMAIN data[r2], d3 \in DOMAIN data[r3] :
             /\ Len(data[r1][d1].content.sents) < n_sentences
             /\ Len(data[r2][d2].content.sents) = n_sentences
             /\ Len(data[r3][d3].content.sents) > n_sentences

\* the records of the signature file of shard r, as (hash_value, doc_id, sent_id)
SigFileRecords(r) ==
    LET recs == ReadAll(sig_files[r], 0, SigWidths)
    IN  [i \in DOMAIN recs |-> <<FromWide(recs[i][1]), FromWide(recs[i][2]), FromWide(recs[i][3])>>]

TripleLeq(a, b) ==
    \/ a[1] < b[1]
    \/ a[1] = b[1] /\ a[2] < b[2]
    \/ a[1] = b[1] /\ a[2] = b[2] /\ a[3] <= b[3]

\* C10: the signature file of a shard holds the signatures of all the windows of
\* the shard's documents, in non-decreasing order of (hash_value, doc_id,
\* sentence_id).
C10_SignatureFileSorted ==
    \A r \in DOMAIN sig_files :
        LET recs == SigFileRecords(r)
            windows == {<<o.hash, o.doc, o.sent>> : o \in {x \in Occurrences : x.shard = r}}
        IN  /\ \A i \in 1 .. (Len(recs) - 1) : TripleLeq(recs[i], recs[i + 1])
            /\ Range(recs) = windows
            /\ Len(recs) = Cardinality(windows)

C10_Witness ==
    \E r \in DOMAIN sig_files :
        LET recs == SigFileRecords(r)
        IN  /\ Len(recs) >= 3
            /\ \E i, j \in DOMAIN recs :
                 i < j /\ (recs[i][2] > recs[j][2] \/ (recs[i][2] = recs[j][2] /\ recs[i][3] > recs[j][3]))

----------------------------------------------------------------------------
(* Stage 3 run again, and the record format *)

\* what stage 3 forwards of docs when no sentence is flagged
LongEnoughRejoined(docs) ==
    LET long == SelectSeq(docs, LAMBDA d : WordCount(d.content.sents) > min_doc_words)
    IN  [i \in DOMAIN long |-> [content |-> [sents |-> long[i].content.sents, raw |-> FALSE]]]

EmptyDupRunDone(r) ==
    /\ r \in DOMAIN dup_files
    /\ dup_files[r] = <<>>
    /\ filt[r].pc = "done"

C8_RecordRoundTrip ==
    /\ Len(codec.file) = 14 * Len(codec.recs)
    /\ codec.pc # "error"
    /\ codec.pc = "read" => codec.out = SubSeq(codec.recs, 1, Len(codec.out))
    /\ codec.pc = "done" => codec.out = codec.recs

C8_Witness ==
    /\ codec.pc = "done"
    /\ Len(codec.out) = 2
    /\ codec.out[1] = [hash_value |-> <<513, 1027, 1541, 2055>>,
                       doc_id |-> <<2569, 3083>>, sent_id |-> <<3597>>]
    /\ codec.out[2] = [hash_value |-> <<65535, 65535, 65535, 65535>>,
                       doc_id |-> <<65535, 65535>>, sent_id |-> <<0>>]

----------------------------------------------------------------------------
(* GopherQualityFilter (src/src/datatrove/pipeline/filters/                 *)
(* gopher_quality_filter.py).  filter() reads of the text only counts: of   *)
(* tokens, of characters, of lines.  A document is these counts.  Every     *)
(* ratio is compared by cross-multiplication: the thresholds have at most   *)
(* two decimals and the counts stay below 2^20, so the float quotient       *)
(* compares with the float threshold as the rationals do.                   *)

\* the defaults of __init__
gopher_min_doc_words == 50
max_doc_words == 100000
min_avg_word_length == 3
max_avg_word_length == 10
max_symbol_word_ratio == <<1, 10>>
max_bullet_lines_ratio == <<9, 10>>
max_ellipsis_lines_ratio == <<3, 10>>
max_non_alpha_words_ratio == <<8, 10>>
min_stop_words == 2

\* "self.x and ...": None and 0 switch a rule off
Truthy(x) == x # None /\ x # 0

\* the same for a fraction; <<0, 1>> stands for 0.0 and for None
TruthyFrac(frac) == frac[1] # 0

Keep == [verdict |-> "keep", reason |-> ""]

Reject(tag) == [verdict |-> "reject", reason |-> tag]

Raise(exc) == [verdict |-> "raise", reason |-> exc]

\* num / den > frac: "fail" when it holds, "pass" when not, and the exception
\* of the division when the denominator is zero
RatioGt(num, den, frac) ==
    IF den = 0 THEN "ZeroDivisionError" ELSE IF num * frac[2] > frac[1] * den THEN "fail" ELSE "pass"

RatioLt(num, den, frac) ==
    IF den = 0 THEN "ZeroDivisionError" ELSE IF num * frac[2] < frac[1] * den THEN "fail" ELSE "pass"

RatioGe(num, den, frac) ==
    IF den = 0 THEN "ZeroDivisionError" ELSE IF num * frac[2] >= frac[1] * den THEN "fail" ELSE "pass"

Check(tag, outcome) == [tag |-> tag, outcome |-> outcome]

Fails(cond) == IF cond THEN "fail" ELSE "pass"

\* the returns of a filter(): the first check that does not pass decides
RECURSIVE FirstFailing(_)
FirstFailing(checks) ==
    IF checks = <<>> THEN Keep
    ELSE IF Head(checks).outcome = "fail" THEN Reject(Head(checks).tag)
    ELSE IF Head(checks).outcome # "pass" THEN Raise(Head(checks).outcome)
    ELSE FirstFailing(Tail(checks))

\* the length rule taken on all the tokens, symbols included
GopherLengthChecks_allWords(doc) ==
    <<Check("gopher_short_doc", Fails(doc.n_words < gopher_min_doc_words)),
      Check("gopher_long_doc", Fails(doc.n_words > max_doc_words))>>

\* lines 89-92: the two rules on the number of non-symbol words
GopherLengthChecks(doc) ==
    <<Check("gopher_short_doc",
            Fails(Truthy(gopher_min_doc_words) /\ doc.n_non_symbol_words < gopher_min_doc_words)),
      Check("gopher_long_doc",
            Fails(Truthy(max_doc_words) /\ doc.n_non_symbol_words > max_doc_words))>>

\* lines 95-132: the other rules, in the order of the code; np.mean of no
\* word is nan, which compares false with everything
GopherOtherChecks(doc) ==
    <<Check("gopher_below_avg_threshold",
            Fails(/\ Truthy(min_avg_word_length)
                  /\ doc.n_non_symbol_words > 0
                  /\ doc.non_symbol_chars < min_avg_word_length * doc.n_non_symbol_words)),
      Check("gopher_above_avg_threshold",
            Fails(/\ Truthy(max_avg_word_length)
                  /\ doc.n_non_symbol_words > 0
                  /\ doc.non_symbol_chars > max_avg_word_length * doc.n_non_symbol_words)),
      Check("gopher_too_many_hashes",
            IF TruthyFrac(max_symbol_word_ratio)
            THEN RatioGt(doc.hashes, doc.n_words, max_symbol_word_ratio) ELSE "pass"),
      Check("gopher_too_many_ellipsis",
            IF TruthyFrac(max_symbol_word_ratio)
            THEN RatioGt(doc.ellipsis, doc.n_words, max_symbol_word_ratio) ELSE "pass"),
      Check("gopher_too_many_bullets",
            IF TruthyFrac(max_bullet_lines_ratio)
            THEN RatioGt(doc.bullet_lines, doc.n_lines, max_bullet_lines_ratio) ELSE "pass"),
      Check("gopher_too_many_end_ellipsis",
            IF TruthyFrac(max_ellipsis_lines_ratio)
            THEN RatioGt(doc.ellipsis_lines, doc.n_lines, max_ellipsis_lines_ratio) ELSE "pass"),
      Check("gopher_below_alpha_threshold",
            IF TruthyFrac(max_non_alpha_words_ratio)
            THEN RatioLt(doc.alpha_words, doc.n_words, max_non_alpha_words_ratio) ELSE "pass"),
      Check("gopher_enough_stop_words",
            Fails(Truthy(min_stop_words) /\ doc.stop_words < min_stop_words))>>

\* GopherQualityFilter.filter
GopherQualityFilter(doc) == FirstFailing(GopherLengthChecks(doc) \o GopherOtherChecks(doc))

\* documents around every threshold: numbers of words, of characters in the
\* non-symbol words, of "#", of ellipses, of lines and of lines by their
\* start and end, of words with a letter, of stop words
GopherDocs ==
    {[n_words |-> nns + nsym, n_non_symbol_words |-> nns, non_symbol_chars |-> chars[1] * nns + chars[2],
      hashes |-> IF h = 0 THEN 0 ELSE ((nns + nsym) \div 10) + h - 1,
      ellipsis |-> IF e = 0 THEN 0 ELSE ((nns + nsym) \div 10) + e - 1,
      n_lines |-> 10, bullet_lines |-> bl, ellipsis_lines |-> el,
      alpha_words |-> ((8 * (nns + nsym) + 9) \div 10) - aw, stop_words |-> sw] :
        nns \in {0, 10, 49, 50, 100000, 100001}, nsym \in {0, 10},
        chars \in {<<3, -1>>, <<3, 0>>, <<10, 0>>, <<10, 1>>},
        h \in {0, 1, 2}, e \in {0, 1, 2},
        bl \in {9, 10}, el \in {0, 3, 4}, aw \in {0, 1}, sw \in {1, 2}}

\* the counts a text can have: a word has a character, a line that ends in
\* an ellipsis holds one, a word with a letter is no symbol, a stop word
\* has a letter
GopherTexts ==
    {d \in GopherDocs :
        /\ d.non_symbol_chars >= d.n_non_symbol_words
        /\ d.n_non_symbol_words = 0 => d.non_symbol_chars = 0
        /\ d.ellipsis_lines <= d.ellipsis
        /\ d.alpha_words >= 0
        /\ d.alpha_words <= d.n_non_symbol_words
        /\ d.stop_words <= d.alpha_words}

DedupIdle ==
    /\ data = [r \in Shards |-> <<>>]
    /\ signatures = [w \in Shards |-> <<>>]
    /\ sig_files = <<>>
    /\ find = [pc |-> "idle", listing |-> <<>>, rpos |-> <<>>, pq |-> <<>>, last |-> None, popped |-> <<>>]
    /\ dup_files = <<>>
    /\ filt = [r \in Shards |-> FilterIdle]
    /\ history = [r \in Shards |-> <<>>]

dedupVars == <<data, signatures, sig_files, find, dup_files, filt, history>>

InitGopherQuality ==
    /\ DedupIdle
    /\ ToolsIdle
    /\ codec = CodecIdle
    /\ quality \in {[pc |-> "ready", doc |-> d] : d \in GopherTexts}
    /\ driver = DriverIdle
    /\ scan = ScanIdle

\* filter(doc) called and returned
GopherQualityCall ==
    /\ quality.pc = "ready"
    /\ quality' = [pc |-> "returned", doc |-> quality.doc,
                   result |-> GopherQualityFilter(quality.doc)]
    /\ UNCHANGED <<toolVars, dedupVars, codec, driver, scan>>

NextGopherQuality == GopherQualityCall

SpecGopherQuality == InitGopherQuality /\ [][NextGopherQuality]_vars

\* the documented rules, in the documented order: tag and violation
GopherRules(d) ==
    <<<<"gopher_short_doc", d.n_non_symbol_words < 50>>,
      <<"gopher_long_doc", d.n_non_symbol_words > 100000>>,
      <<"gopher_below_avg_threshold", d.non_symbol_chars < 3 * d.n_non_symbol_words>>,
      <<"gopher_above_avg_threshold", d.non_symbol_chars > 10 * d.n_non_symbol_words>>,
      <<"gopher_too_many_hashes", 10 * d.hashes > d.n_words>>,
      <<"gopher_too_many_ellipsis", 10 * d.ellipsis > d.n_words>>,
      <<"gopher_too_many_bullets", 10 * d.bullet_lines > 9 * d.n_lines>>,
      <<"gopher_too_many_end_ellipsis", 10 * d.ellipsis_lines > 3 * d.n_lines>>,
      <<"gopher_below_alpha_threshold", 10 * d.alpha_words < 8 * d.n_words>>,
      <<"gopher_enough_stop_words", d.stop_words < 2>>>>

ViolatedRules(rules) == {i \in DOMAIN rules : rules[i][2]}

FirstViolated(rules) ==
    CHOOSE i \in ViolatedRules(rules) : \A j \in ViolatedRules(rules) : i <= j

\* C11: GopherQualityFilter.filter rejects a document iff one of the
\* documented thresholds is violated, the reason is the tag of the first
\* violated rule in the documented order, and a document of fewer non-symbol
\* words than min_doc_words is rejected as gopher_short_doc whatever else
\* holds of it.
C11_GopherRejectsFirstViolated ==
    quality.pc = "returned" =>
        LET rules == GopherRules(quality.doc)
            res == quality.result
        IN  /\ res.verdict \in {"keep", "reject"}
            /\ res.verdict = "reject" <=> ViolatedRules(rules) # {}
            /\ res.verdict = "reject" => res.reason = rules[FirstViolated(rules)][1]
            /\ quality.doc.n_non_symbol_words < 50 => res = Reject("gopher_short_doc")

\* ten words, of them two stop words, nothing else wrong: rejected as short
C11_Witness ==
    /\ quality.pc = "returned"
    /\ quality.doc.n_non_symbol_words = 10
    /\ ViolatedRules(GopherRules(quality.doc)) = {1}
    /\ quality.result = Reject("gopher_short_doc")

----------------------------------------------------------------------------
(* GopherRepetitionFilter (src/src/datatrove/pipeline/filters/              *)
(* gopher_repetition_filter.py).  A text is a sequence of chunks: a space,  *)
(* a newline, a letter, a full stop, and x, y and gap, runs of XLen times    *)
(* the letter x, of YLen times the letter y and of GapLen spaces.  Two      *)
(* texts are the same string iff they are the same sequence of chunks; a    *)
(* word is a maximal run of chunks that are no white space.                 *)

XLen == 20
YLen == 50
GapLen == 40

Letters == {"a", "b"}

MoreLetters == <<"a", "b", "c", "d", "e", "f", "g", "h", "i">>

IsSpace(c) == c \in {"sp", "nl", "gap"}

\* len() of a string
StrLen(str) ==
    Len(str) + (XLen - 1) * Cardinality({i \in DOMAIN str : str[i] = "x"})
             + (YLen - 1) * Cardinality({i \in DOMAIN str : str[i] = "y"})
             + (GapLen - 1) * Cardinality({i \in DOMAIN str : str[i] = "gap"})

\* str.strip()
RECURSIVE LStrip(_)
LStrip(str) == IF str # <<>> /\ IsSpace(Head(str)) THEN LStrip(Tail(str)) ELSE str

RECURSIVE RStrip(_)
RStrip(str) ==
    IF str # <<>> /\ IsSpace(str[Len(str)]) THEN RStrip(SubSeq(str, 1, Len(str) - 1)) ELSE str

Strip(str) == RStrip(LStrip(str))

\* the number of newlines str starts with
RECURSIVE NewlineRun(_)
NewlineRun(str) ==
    IF str # <<>> /\ Head(str) = "nl" THEN 1 + NewlineRun(Tail(str)) ELSE 0

\* re.split on runs of at least atLeast newlines; cur is the piece in progress
RECURSIVE ReSplit(_, _, _)
ReSplit(str, atLeast, cur) ==
    IF str = <<>> THEN <<cur>>
    ELSE LET run == NewlineRun(str)
         IN  IF run >= atLeast
             THEN <<cur>> \o ReSplit(SubSeq(str, run + 1, Len(str)), atLeast, <<>>)
             ELSE IF run > 0
             THEN ReSplit(SubSeq(str, run + 1, Len(str)), atLeast, cur \o SubSeq(str, 1, run))
             ELSE ReSplit(Tail(str), atLeast, Append(cur, Head(str)))

\* self.paragraph_exp.split, re.compile(r"\n{2,}")
paragraph_exp_split(str) == ReSplit(str, 2, <<>>)

\* self._line_splitter.split, re.compile("\n+")
line_splitter_split(str) == ReSplit(str, 1, <<>>)

\* the tokenizer: the words of the text, in order
RECURSIVE tokenizer_word_tokenize(_, _)
tokenizer_word_tokenize(str, cur) ==
    IF str = <<>> THEN (IF cur = <<>> THEN <<>> ELSE <<cur>>)
    ELSE IF IsSpace(Head(str))
    THEN (IF cur = <<>> THEN <<>> ELSE <<cur>>) \o tokenizer_word_tokenize(Tail(str), <<>>)
    ELSE tokenizer_word_tokenize(Tail(str), Append(cur, Head(str)))

\* sep.join(parts)
RECURSIVE StrJoin(_, _)
StrJoin(sep, parts) ==
    IF parts = <<>> THEN <<>>
    ELSE IF Len(parts) = 1 THEN parts[1]
    ELSE parts[1] \o sep \o StrJoin(sep, Tail(parts))

get_n_grams(words, n) ==
    [i \in 1 .. (Len(words) - n + 1) |-> StrJoin(<<"sp">>, SubSeq(words, i, i + n - 1))]

\* find_duplicates: <<duplicate_elements, duplicate_chars>>
RECURSIVE find_duplicates_from(_, _)
find_duplicates_from(x, unique_x) ==
    IF x = <<>> THEN <<0, 0>>
    ELSE IF Head(x) \in unique_x
    THEN LET rest == find_duplicates_from(Tail(x), unique_x)
         IN  <<rest[1] + 1, rest[2] + StrLen(Head(x))>>
    ELSE find_duplicates_from(Tail(x), unique_x \cup {Head(x)})

find_duplicates(x) == find_duplicates_from(x, {})

\* Counter: the number of times element occurs in x
CounterOf(x, element) == Cardinality({i \in DOMAIN x : x[i] = element})

\* counter.most_common(1)[0]: the highest count, the first inserted on a tie
find_top_duplicate(x) ==
    LET top == CHOOSE i \in DOMAIN x :
                   /\ \A j \in DOMAIN x : CounterOf(x, x[j]) <= CounterOf(x, x[i])
                   /\ \A j \in 1 .. (i - 1) : CounterOf(x, x[j]) < CounterOf(x, x[i])
    IN  StrLen(x[top]) * CounterOf(x, x[top])

\* a scan that steps to the next word after a repeat, so that the windows it
\* counts may overlap
ScanTurn_overlap(words, n, st) ==
    LET n_gram == StrJoin(<<>>, SubSeq(words, st.idx + 1, st.idx + n))
    IN  IF n_gram \in st.unique
        THEN [st EXCEPT !.repeated_chars = @ + StrLen(n_gram), !.idx = @ + 1]
        ELSE [st EXCEPT !.unique = @ \cup {n_gram}, !.idx = @ + 1]

\* find_all_duplicate, lines 61-68: one turn of the loop
ScanTurn(words, n, st) ==
    LET n_gram == StrJoin(<<>>, SubSeq(words, st.idx + 1, st.idx + n))
    IN  IF n_gram \in st.unique
        THEN [st EXCEPT !.repeated_chars = @ + StrLen(n_gram), !.idx = @ + n]
        ELSE [st EXCEPT !.unique = @ \cup {n_gram}, !.idx = @ + 1]

ScanStart == [idx |-> 0, unique |-> {}, repeated_chars |-> 0]

RECURSIVE ScanLoop(_, _, _)
ScanLoop(words, n, st) ==
    IF st.idx < Len(words) - n + 1 THEN ScanLoop(words, n, ScanTurn(words, n, st)) ELSE st

\* line 69
ScanAssertion(words, st) == st.repeated_chars <= StrLen(StrJoin(<<>>, words))

\* find_all_duplicate; -1 stands for the AssertionError
find_all_duplicate(words, n) ==
    LET st == ScanLoop(words, n, ScanStart)
    IN  IF ScanAssertion(words, st) THEN st.repeated_chars ELSE -1

\* the defaults of __init__
dup_line_frac == <<30, 100>>
dup_para_frac == <<30, 100>>
dup_line_char_frac == <<20, 100>>
dup_para_char_frac == <<20, 100>>
top_n_grams == <<<<2, <<20, 100>>>>, <<3, <<18, 100>>>>, <<4, <<16, 100>>>>>>
dup_n_grams ==
    <<<<5, <<15, 100>>>>, <<6, <<14, 100>>>>, <<7, <<13, 100>>>>,
      <<8, <<12, 100>>>>, <<9, <<11, 100>>>>, <<10, <<10, 100>>>>>>

\* f"top_{n}_gram"
TopTag(n) == CASE n = 2 -> "top_2_gram" [] n = 3 -> "top_3_gram" [] n = 4 -> "top_4_gram"

\* f"duplicated_{n}_n_grams"
DupTag(n) ==
    CASE n = 5 -> "duplicated_5_n_grams" [] n = 6 -> "duplicated_6_n_grams"
      [] n = 7 -> "duplicated_7_n_grams" [] n = 8 -> "duplicated_8_n_grams"
      [] n = 9 -> "duplicated_9_n_grams" [] n = 10 -> "duplicated_10_n_grams"

\* lines 120-141: the rules on paragraphs and lines
RepetitionLineChecks(text) ==
    LET paragraphs == paragraph_exp_split(Strip(text))
        para_dups == find_duplicates(paragraphs)
        lines == line_splitter_split(text)
        line_dups == find_duplicates(lines)
    IN  <<Check("dup_para_frac",
                IF TruthyFrac(dup_para_frac)
                THEN RatioGt(para_dups[1], Len(paragraphs), dup_para_frac) ELSE "pass"),
          Check("dup_para_char_frac",
                IF TruthyFrac(dup_para_char_frac)
                THEN RatioGt(para_dups[2], StrLen(text), dup_para_char_frac) ELSE "pass"),
          Check("dup_line_frac",
                IF TruthyFrac(dup_line_frac)
                THEN RatioGt(line_dups[1], Len(lines), dup_line_frac) ELSE "pass"),
          Check("dup_line_char_frac",
                IF TruthyFrac(dup_line_char_frac)
                THEN RatioGt(line_dups[2], StrLen(text), dup_line_char_frac) ELSE "pass")>>

\* lines 143-156: the rules on word n-grams
RepetitionGramChecks(text) ==
    LET words == tokenizer_word_tokenize(text, <<>>)
    IN  [k \in DOMAIN top_n_grams |->
            LET n_grams == get_n_grams(words, top_n_grams[k][1])
            IN  Check(TopTag(top_n_grams[k][1]),
                      IF n_grams = <<>> THEN "pass"
                      ELSE RatioGt(find_top_duplicate(n_grams), StrLen(text), top_n_grams[k][2]))]
        \o
        [k \in DOMAIN dup_n_grams |->
            LET n_duplicates_char == find_all_duplicate(words, dup_n_grams[k][1])
            IN  Check(DupTag(dup_n_grams[k][1]),
                      IF n_duplicates_char = -1 THEN "AssertionError"
                      ELSE RatioGt(n_duplicates_char, StrLen(text), dup_n_grams[k][2]))]

\* GopherRepetitionFilter.filter
GopherRepetitionFilter(text) ==
    FirstFailing(RepetitionLineChecks(text) \o RepetitionGramChecks(text))

\* every text of up to MaxChunks chunks, the empty one included
MaxChunks == 5

SmallTexts == SeqsUpTo(Letters \cup {"sp", "nl"}, 0, MaxChunks)

\* up to MaxWords words, short and long, on one line or one per line
MaxWords == 4

WordTexts ==
    {StrJoin(<<sep>>, ws) :
        ws \in SeqsUpTo({<<"a">>, <<"b">>, <<"x">>, <<"x", "x">>}, 1, MaxWords),
        sep \in {"sp", "nl"}}

\* k - 1 short words and a long one, twice
RepeatedGram(k) ==
    LET gram == [i \in 1 .. k |-> IF i = k THEN <<"x">> ELSE <<MoreLetters[i]>>]
    IN  StrJoin(<<"sp">>, gram \o gram)

\* texts with a repeated part: paragraphs, lines, a run of five words with
\* its own repeats, a run of five to ten words
RepeatingTexts ==
    {<<"x", "nl", "nl", "a", "nl", "nl", "b", "nl", "nl", "x">>,
     <<"x", "nl", "a", "nl", "b", "nl", "x">>,
     StrJoin(<<"sp">>, <<<<"a">>, <<"a">>, <<"a">>, <<"a">>, <<"x">>,
                        <<"a">>, <<"a">>, <<"a">>, <<"a">>, <<"x">>>>)}
    \cup {RepeatedGram(k) : k \in 5 .. 10}

\* a text followed by one more word, of pad times YLen letters
MaxPad == 3

Padded(text, pad) == IF pad = 0 THEN text ELSE text \o <<"sp">> \o [i \in 1 .. pad |-> "y"]

RepetitionTexts ==
    SmallTexts \cup WordTexts \cup {Padded(t, pad) : t \in RepeatingTexts, pad \in 0 .. MaxPad}

InitRepetition ==
    /\ DedupIdle
    /\ ToolsIdle
    /\ codec = CodecIdle
    /\ quality \in {[pc |-> "ready", doc |-> t] : t \in RepetitionTexts}
    /\ driver = DriverIdle
    /\ scan = ScanIdle

\* filter(doc) called; it returned or raised
RepetitionCall ==
    /\ quality.pc = "ready"
    /\ quality' = [pc |-> "returned", doc |-> quality.doc,
                   result |-> GopherRepetitionFilter(quality.doc)]
    /\ UNCHANGED <<toolVars, dedupVars, codec, driver, scan>>

NextRepetition == RepetitionCall

SpecRepetition == InitRepetition /\ [][NextRepetition]_vars

\* the elements of x that repeat an earlier one: their positions
LaterOccurrences(x) == {i \in DOMAIN x : \E j \in 1 .. (i - 1) : x[j] = x[i]}

RECURSIVE SumLen(_, _)
SumLen(x, positions) ==
    IF positions = {} THEN 0
    ELSE LET i == CHOOSE k \in positions : TRUE
         IN  StrLen(x[i]) + SumLen(x, positions \ {i})

\* fraction num / den strictly above percent / 100; nothing exceeds it when
\* there is nothing to take a fraction of
Exceeds(num, den, percent) == 100 * num > percent * den

\* the documented rules, in the documented order: tag and violation
RepetitionRules(text) ==
    LET paragraphs == paragraph_exp_split(Strip(text))
        lines == line_splitter_split(text)
        words == tokenizer_word_tokenize(text, <<>>)
        total == StrLen(text)
        top(n) == IF Len(words) < n THEN 0 ELSE find_top_duplicate(get_n_grams(words, n))
    IN  <<<<"dup_para_frac",
            Exceeds(Cardinality(LaterOccurrences(paragraphs)), Len(paragraphs), 30)>>,
          <<"dup_para_char_frac",
            Exceeds(SumLen(paragraphs, LaterOccurrences(paragraphs)), total, 20)>>,
          <<"dup_line_frac", Exceeds(Cardinality(LaterOccurrences(lines)), Len(lines), 30)>>,
          <<"dup_line_char_frac", Exceeds(SumLen(lines, LaterOccurrences(lines)), total, 20)>>,
          <<"top_2_gram", Exceeds(top(2), total, 20)>>,
          <<"top_3_gram", Exceeds(top(3), total, 18)>>,
          <<"top_4_gram", Exceeds(top(4), total, 16)>>,
          <<"duplicated_5_n_grams", Exceeds(find_all_duplicate(words, 5), total, 15)>>,
          <<"duplicated_6_n_grams", Exceeds(find_all_duplicate(words, 6), total, 14)>>,
          <<"duplicated_7_n_grams", Exceeds(find_all_duplicate(words, 7), total, 13)>>,
          <<"duplicated_8_n_grams", Exceeds(find_all_duplicate(words, 8), total, 12)>>,
          <<"duplicated_9_n_grams", Exceeds(find_all_duplicate(words, 9), total, 11)>>,
          <<"duplicated_10_n_grams", Exceeds(find_all_duplicate(words, 10), total, 10)>>>>

\* the filter decides on text as documented: keep iff no rule is exceeded,
\* else the tag of the first exceeded rule
RepetitionAsDocumented(text, res) ==
    LET rules == RepetitionRules(text)
    IN  /\ res.verdict \in {"keep", "reject"}
        /\ res.verdict = "reject" <=> ViolatedRules(rules) # {}
        /\ res.verdict = "reject" => res.reason = rules[FirstViolated(rules)][1]

\* C12: GopherRepetitionFilter.filter keeps a document iff none of its
\* thresholds is strictly exceeded and else rejects with the tag of the first
\* exceeded rule, in the order paragraphs, paragraph characters, lines, line
\* characters, top 2- to 4-grams, duplicated 5- to 10-grams; a first
\* occurrence is no duplicate and character fractions are of the text length.
C12_RepetitionRejectsFirstExceeded ==
    quality.pc = "returned" => RepetitionAsDocumented(quality.doc, quality.result)

----------------------------------------------------------------------------
(* FineWebQualityFilter (src/src/datatrove/pipeline/filters/                *)
(* fineweb_quality_filter.py), on the same texts                            *)

\* the defaults of __init__; line_punct_exclude_zero is set per instance
line_punct_thr == <<12, 100>>
short_line_thr == <<67, 100>>
short_line_length == 30
char_duplicates_ratio == <<1, 100>>
new_line_ratio == <<30, 100>>

\* str.split("\n"); cur is the line in progress
RECURSIVE SplitLines(_, _)
SplitLines(str, cur) ==
    IF str = <<>> THEN <<cur>>
    ELSE IF Head(str) = "nl" THEN <<cur>> \o SplitLines(Tail(str), <<>>)
    ELSE SplitLines(Tail(str), Append(cur, Head(str)))

\* line.endswith(stop_chars)
EndsWithStop(line) == line # <<>> /\ line[Len(line)] = "."

\* text.count("\n")
CountNewlines(str) == Cardinality({i \in DOMAIN str : str[i] = "nl"})

\* the line rule: ratio <= thr and not (ratio == 0 and exclude_zero)
LinePunctCheck(lines, exclude_zero) ==
    LET ending == Cardinality({i \in DOMAIN lines : EndsWithStop(lines[i])})
    IN  IF Len(lines) = 0 THEN "ZeroDivisionError"
        ELSE Fails(/\ ending * line_punct_thr[2] <= line_punct_thr[1] * Len(lines)
                   /\ ~(ending = 0 /\ exclude_zero))

\* lines 35-53: the four rules, in the order of the code
FineWebChecks(text, exclude_zero) ==
    LET lines == SplitLines(text, <<>>)
        short == Cardinality({i \in DOMAIN lines : StrLen(lines[i]) <= short_line_length})
        non_empty_lines == SelectSeq(lines, LAMBDA line : Strip(line) # <<>>)
        words == tokenizer_word_tokenize(text, <<>>)
    IN  <<Check("line_punct_ratio", LinePunctCheck(lines, exclude_zero)),
          Check("short_line_ratio", RatioGe(short, Len(lines), short_line_thr)),
          Check("char_dup_ratio",
                RatioGe(find_duplicates(non_empty_lines)[2],
                        StrLen(text) - CountNewlines(text), char_duplicates_ratio)),
          Check("list_ratio", RatioGt(CountNewlines(text), Len(words), new_line_ratio))>>

\* FineWebQualityFilter.filter
FineWebQualityFilter(text, exclude_zero) == FirstFailing(FineWebChecks(text, exclude_zero))

\* lines: long and short, with and without a final full stop, of one word
\* and of four, empty, and of spaces only
LineKinds ==
    {<<"x", "x", ".">>, <<"x", "x">>, <<"a", ".">>, <<"a">>, <<>>, <<"gap">>,
     <<"x", "sp", "x", "sp", "x", "sp", "x", ".">>}

MaxLines == 4

FineWebTexts == {StrJoin(<<"nl">>, ls) : ls \in SeqsUpTo(LineKinds, 1, MaxLines)}

InitFineWeb ==
    /\ DedupIdle
    /\ ToolsIdle
    /\ codec = CodecIdle
    /\ quality \in {[pc |-> "ready", doc |-> t, line_punct_exclude_zero |-> z] :
                       t \in FineWebTexts, z \in BOOLEAN}
    /\ driver = DriverIdle
    /\ scan = ScanIdle

\* filter(doc) called; it returned or raised
FineWebCall ==
    /\ quality.pc = "ready"
    /\ quality' = [quality EXCEPT !.pc = "returned"]
                  @@ [result |-> FineWebQualityFilter(quality.doc, quality.line_punct_exclude_zero)]
    /\ UNCHANGED <<toolVars, dedupVars, codec, driver, scan>>

NextFineWeb == FineWebCall

SpecFineWeb == InitFineWeb /\ [][NextFineWeb]_vars

\* the documented rules, in the documented order: tag and violation
FineWebRules(text, exclude_zero) ==
    LET lines == SplitLines(text, <<>>)
        ending == Cardinality({i \in DOMAIN lines : EndsWithStop(lines[i])})
        short == Cardinality({i \in DOMAIN lines : StrLen(lines[i]) <= 30})
        non_empty == SelectSeq(lines, LAMBDA line : Strip(line) # <<>>)
        dup_chars == SumLen(non_empty, LaterOccurrences(non_empty))
        chars == StrLen(text) - CountNewlines(text)
        words == Len(tokenizer_word_tokenize(text, <<>>))
    IN  <<<<"line_punct_ratio",
            100 * ending <= 12 * Len(lines) /\ ~(ending = 0 /\ exclude_zero)>>,
          <<"short_line_ratio", 100 * short >= 67 * Len(lines)>>,
          <<"char_dup_ratio", chars > 0 /\ 100 * dup_chars >= chars>>,
          <<"list_ratio", Exceeds(CountNewlines(text), words, 30)>>>>

\* the filter decides as documented: keep iff no rule fails, else the tag of
\* the first failing rule
FineWebAsDocumented(text, exclude_zero, res) ==
    LET rules == FineWebRules(text, exclude_zero)
    IN  /\ res.verdict \in {"keep", "reject"}
        /\ res.verdict = "reject" <=> ViolatedRules(rules) # {}
        /\ res.verdict = "reject" => res.reason = rules[FirstViolated(rules)][1]

\* C13: FineWebQualityFilter.filter rejects with the first failing rule in
\* the order line_punct_ratio (at most 0.12 of the lines end in terminal
\* punctuation, a fraction of exactly 0 excepted when line_punct_exclude_zero
\* is set), short_line_ratio (at least 0.67 of the lines have at most 30
\* characters), char_dup_ratio (at least 0.01), list_ratio (newlines per word
\* above 0.30), and keeps the document iff none of the four fails.
C13_FineWebRejectsFirstFailing ==
    quality.pc = "returned" =>
        FineWebAsDocumented(quality.doc, quality.line_punct_exclude_zero, quality.result)

\* C16: for every document, one of zero lines, zero words or zero-length
\* text included, a quality filter returns a decision, keep or reject: no
\* ratio is taken over a zero denominator.
C16_FilterAlwaysDecides ==
    quality.pc = "returned" => quality.result.verdict \in {"keep", "reject"}

----------------------------------------------------------------------------
(* BaseFilter.__call__ (src/src/datatrove/pipeline/filters/base_filter.py): *)
(* a generator over the input, with the exclusion writer as its context     *)
(* manager.  What filter() does on a document is part of the input: it      *)
(* returns True, False or (False, reason), or it raises; the input          *)
(* sequence may itself raise instead of giving its next document.           *)

MaxInput == 3

\* None where a string is expected
NoReason == "None"

Reasons == {"short", "long"}

\* what filter(doc) does
FilterOutcomes ==
    {[kind |-> "bool", result |-> TRUE, reason |-> NoReason],
     [kind |-> "bool", result |-> FALSE, reason |-> NoReason],
     [kind |-> "raise", result |-> FALSE, reason |-> NoReason]}
    \cup {[kind |-> "tuple", result |-> FALSE, reason |-> r] : r \in Reasons}

\* what the input gives at one position: a document, or an error
InputItems ==
    {[kind |-> "doc", res |-> o] : o \in FilterOutcomes}
    \cup {[kind |-> "error", res |-> [kind |-> "raise", result |-> FALSE, reason |-> NoReason]]}

\* every result taken as a keep
get_filter_result_keepAll(res) == <<TRUE, NoReason>>

\* get_filter_result: <<result, reason>>
get_filter_result(res) ==
    IF res.kind = "tuple" THEN <<res.result, res.reason>> ELSE <<res.result, NoReason>>

SinkUnopened == [state |-> "unopened", docs |-> <<>>, log |-> <<>>]

\* the writer's __enter__, write and __exit__; each leaves a trace in log
SinkEnter(sink) == [sink EXCEPT !.state = "open", !.log = Append(@, "open")]

SinkWrite(sink, doc, rank) ==
    [sink EXCEPT !.docs = Append(@, [doc |-> doc, rank |-> rank]),
                 !.log = Append(@, IF sink.state = "open" THEN "write" ELSE "write_not_open")]

\* the writer left as it is when the block is left
WithExit_leaveOpen(sink) == sink

\* leaving the with block, on any path: __exit__ of the context manager
WithExit(sink) == [sink EXCEPT !.state = "closed", !.log = Append(@, "close")]

\* the document at position i of the input, as it arrives
DocAt(i) == [id |-> i, metadata |-> [filter_reason |-> NoReason]]

\* line 42, at the first next(): the with block is entered
DriverEnter ==
    /\ driver.pc = "created"
    /\ driver' = [driver EXCEPT
                     !.pc = "loop",
                     !.sink = IF driver.exclusion_writer THEN SinkEnter(@) ELSE @]
    /\ UNCHANGED <<toolVars, dedupVars, codec, quality, scan>>

\* lines 43-50: one turn of the loop, up to the yield or to the turn's end
DriverTurn ==
    /\ driver.pc = "loop"
    /\ driver.idx < Len(driver.data)
    /\ LET item == driver.data[driver.idx + 1]
           doc == DocAt(driver.idx + 1)
           fr == get_filter_result(item.res)
           excluded == [doc EXCEPT !.metadata.filter_reason =
                                      IF fr[2] # NoReason THEN fr[2] ELSE @]
       IN  driver' =
               IF item.kind = "error" \/ item.res.kind = "raise"
               THEN [driver EXCEPT
                        !.pc = "raised",
                        !.sink = IF driver.exclusion_writer THEN WithExit(@) ELSE @]
               ELSE IF fr[1] = TRUE
               THEN [driver EXCEPT !.idx = @ + 1, !.out = Append(@, doc)]
               ELSE IF driver.exclusion_writer
               THEN [driver EXCEPT !.idx = @ + 1, !.sink = SinkWrite(@, excluded, 0)]
               ELSE [driver EXCEPT !.idx = @ + 1]
    /\ UNCHANGED <<toolVars, dedupVars, codec, quality, scan>>

\* the input is exhausted: the loop and the with block are left
DriverExhausted ==
    /\ driver.pc = "loop"
    /\ driver.idx = Len(driver.data)
    /\ driver' = [driver EXCEPT
                     !.pc = "done",
                     !.sink = IF driver.exclusion_writer THEN WithExit(@) ELSE @]
    /\ UNCHANGED <<toolVars, dedupVars, codec, quality, scan>>

InitDriver ==
    /\ DedupIdle
    /\ ToolsIdle
    /\ codec = CodecIdle
    /\ quality = QualityIdle
    /\ scan = ScanIdle
    /\ driver \in {[pc |-> "created", exclusion_writer |-> w, data |-> d, idx |-> 0,
                    out |-> <<>>, sink |-> SinkUnopened] :
                      w \in BOOLEAN, d \in SeqsUpTo(InputItems, 0, MaxInput)}

NextDriver ==
    \/ DriverEnter
    \/ DriverTurn
    \/ DriverExhausted

SpecDriver == InitDriver /\ [][NextDriver]_vars

\* the positions the loop has passed, and of them the kept and the dropped
Passed == 1 .. driver.idx

KeptPositions == {i \in Passed : driver.data[i].res.result}

RECURSIVE Ascending(_)
Ascending(S) ==
    IF S = {} THEN <<>>
    ELSE LET m == CHOOSE x \in S : \A y \in S : x <= y
         IN  <<m>> \o Ascending(S \ {m})

\* C14: the forwarded output is the subsequence, in input order, of the
\* documents filter() kept; a document it did not keep is never forwarded
\* and, with an exclusion sink, is written to the sink exactly once, with
\* metadata["filter_reason"] the reason filter() returned; no document is
\* both forwarded and written.
C14_ForwardedAreTheKept ==
    driver.pc # "idle" =>
        LET kept == Ascending(KeptPositions)
            dropped == Ascending(Passed \ KeptPositions)
            written == driver.sink.docs
        IN  /\ driver.out = [k \in DOMAIN kept |-> DocAt(kept[k])]
            /\ driver.exclusion_writer =>
                  /\ Len(written) = Len(dropped)
                  /\ \A k \in DOMAIN dropped :
                        /\ written[k].doc.id = dropped[k]
                        /\ written[k].doc.metadata.filter_reason
                              = driver.data[dropped[k]].res.reason
            /\ ~driver.exclusion_writer => written = <<>>
            /\ \A i \in DOMAIN driver.out, k \in DOMAIN written :
                  driver.out[i].id # written[k].doc.id

\* three documents passed with a sink: one kept between two dropped
C14_Witness ==
    /\ driver.pc = "done"
    /\ driver.exclusion_writer
    /\ driver.idx = 3
    /\ KeptPositions = {2}
    /\ Len(driver.sink.docs) = 2
    /\ driver.sink.docs[1].doc.metadata.filter_reason = "short"

RECURSIVE LogIsScoped(_, _)
LogIsScoped(log, state) ==
    IF log = <<>> THEN TRUE
    ELSE CASE Head(log) = "open" -> state = "unopened" /\ LogIsScoped(Tail(log), "open")
           [] Head(log) = "write" -> state = "open" /\ LogIsScoped(Tail(log), "open")
           [] Head(log) = "close" -> state = "open" /\ LogIsScoped(Tail(log), "closed")
           [] OTHER -> FALSE

\* C15: every write to the exclusion sink happens after the sink was opened
\* and before it is closed, and the sink is closed once the input is
\* exhausted and also once filter() or the input has raised.
C15_SinkScoped ==
    (driver.pc # "idle" /\ driver.exclusion_writer) =>
        /\ LogIsScoped(driver.sink.log, "unopened")
        /\ driver.pc \in {"done", "raised"} => driver.sink.state = "closed"
        /\ driver.pc = "loop" => driver.sink.state = "open"

\* a document was written to the sink, then filter() or the input raised
C15_Witness ==
    /\ driver.pc = "raised"
    /\ driver.exclusion_writer
    /\ driver.sink.log = <<"open", "write", "close">>

----------------------------------------------------------------------------
(* read_sigs and read_dups on a file that was cut short *)

\* read_dups, lines 143-153: the generator advanced once
ReadDup ==
    /\ codec.pc = "read_dups"
    /\ LET r == ReadRecord(codec.file, codec.pos, DupWidths)
       IN  codec' =
               CASE r.kind = "rec" ->
                      [codec EXCEPT !.pos = r.pos,
                                    !.out = Append(@, [doc_id |-> r.vals[1],
                                                       sent_id |-> r.vals[2]])]
                 [] r.kind = "stop" -> [codec EXCEPT !.pc = "done"]
                 [] OTHER -> [codec EXCEPT !.pc = "error"]
    /\ UNCHANGED <<data, signatures, sig_files, find, dup_files, filt, history, filterVars, toolVars>>

\* the first cut bytes of a file
CutAt(file, cut) == SubSeq(file, 1, cut)

\* a signature file or a duplicate file of up to MaxRecs records, whole or
\* cut at any byte, about to be read
InitTruncated ==
    /\ DedupIdle
    /\ ToolsIdle
    /\ FiltersIdle
    /\ \E recs \in SeqsUpTo(WideSigs, 0, MaxRecs) :
         \/ LET file == Concat([i \in DOMAIN recs |->
                            WriteRecord(<<recs[i].hash_value, recs[i].doc_id, recs[i].sent_id>>)])
            IN  \E cut \in 0 .. Len(file) :
                  codec = [recs |-> recs, file |-> CutAt(file, cut), pos |-> 0,
                           out |-> <<>>, pc |-> "read", widths |-> SigWidths]
         \/ LET file == Concat([i \in DOMAIN recs |->
                            WriteRecord(<<recs[i].doc_id, recs[i].sent_id>>)])
            IN  \E cut \in 0 .. Len(file) :
                  codec = [recs |-> [i \in DOMAIN recs |-> [doc_id |-> recs[i].doc_id,
                                                           sent_id |-> recs[i].sent_id]],
                           file |-> CutAt(file, cut), pos |-> 0,
                           out |-> <<>>, pc |-> "read_dups", widths |-> DupWidths]

NextTruncated ==
    \/ ReadSig
    \/ ReadDup

SpecTruncated == InitTruncated /\ [][NextTruncated]_vars

\* C17: on a signature or duplicate file that ends in an incomplete record,
\* cut at any byte of the record, the reader stops at the incomplete record
\* as at the end of the file: it has yielded the complete records before it,
\* not the partial one, and raises no error.
C17_TruncatedTailIsEndOfFile ==
    codec.pc \in {"done", "error"} =>
        /\ codec.pc = "done"
        /\ codec.out = SubSeq(codec.recs, 1, Len(codec.out))
        /\ \A k \in 1 .. Len(codec.recs) :
              k <= Len(codec.out) <=> Len(codec.file) >= k * SumSeq(codec.widths)

----------------------------------------------------------------------------
(* Stage 1 with indices at the edge of their fields: "<I" doc_id, "<H" sent_id *)

MaxIndexDocs == 2

\* the numbers of sentence windows a document may have, around 2^16
WindowCounts == {0, 1, 2, 65536, 65537}

\* a document index is kept as three 16-bit words, least significant first
WideZero == <<0, 0, 0>>
WideTwoTo32Less1 == <<65535, 65535, 0>>

RECURSIVE WideInc(_)
WideInc(w) ==
    IF w = <<>> THEN <<>>
    ELSE IF Head(w) < 65535 THEN <<Head(w) + 1>> \o Tail(w)
    ELSE <<0>> \o WideInc(Tail(w))

RECURSIVE WideLess(_, _)
WideLess(a, b) ==
    IF a = <<>> THEN FALSE
    ELSE \/ a[Len(a)] < b[Len(b)]
         \/ /\ a[Len(a)] = b[Len(b)]
            /\ WideLess(SubSeq(a, 1, Len(a) - 1), SubSeq(b, 1, Len(b) - 1))

\* struct.pack of an unsigned field of nwords 16-bit words: the bytes, or
\* struct.error when the value does not fit
StructPackChecked(wide, nwords) ==
    IF \E i \in DOMAIN wide : i > nwords /\ wide[i] # 0
    THEN [ok |-> FALSE, bytes |-> <<>>]
    ELSE [ok |-> TRUE, bytes |-> StructPack([i \in 1 .. nwords |->
                                                IF i <= Len(wide) THEN wide[i] ELSE 0])]

\* HashSig.__lt__ with the document index wide; file_id is None in stage 1
IndexSigLt(a, b) ==
    \/ a.hash_value < b.hash_value
    \/ /\ a.hash_value = b.hash_value
       /\ \/ WideLess(a.doc_id, b.doc_id)
          \/ a.doc_id = b.doc_id /\ a.sent_id < b.sent_id

RECURSIVE InsertIndexSig(_, _)
InsertIndexSig(x, sorted) ==
    IF sorted = <<>> THEN <<x>>
    ELSE IF IndexSigLt(x, Head(sorted)) THEN <<x>> \o sorted
    ELSE <<Head(sorted)>> \o InsertIndexSig(x, Tail(sorted))

RECURSIVE SortIndexSigs(_)
SortIndexSigs(l) ==
    IF l = <<>> THEN <<>>
    ELSE InsertIndexSig(l[Len(l)], SortIndexSigs(SubSeq(l, 1, Len(l) - 1)))

\* get_hashes on a document of doc.windows windows, all of hash doc.hash; of
\* the windows 0 .. windows - 1 the model keeps the first and the last
get_hashes_indexed(doc, doc_idx) ==
    LET ids == IF doc.windows = 0 THEN <<>>
               ELSE IF doc.windows = 1 THEN <<0>>
               ELSE <<0, doc.windows - 1>>
    IN  [i \in DOMAIN ids |->
            [hash_value |-> doc.hash, doc_id |-> doc_idx, sent_id |-> ids[i]]]

\* save_hashes, lines 60-63: the three writes of every signature in turn,
\* up to the first struct.pack that raises
RECURSIVE WriteSigs(_, _)
WriteSigs(sigs, file) ==
    IF sigs = <<>> THEN [file |-> file, pc |-> "saved"]
    ELSE LET hs == Head(sigs)
             h == StructPackChecked(ToWide(hs.hash_value, 4), 4)
             d == StructPackChecked(hs.doc_id, 2)
             s == StructPackChecked(ToWide(hs.sent_id, 2), 1)
         IN  IF ~h.ok THEN [file |-> file, pc |-> "error"]
             ELSE IF ~d.ok THEN [file |-> file \o h.bytes, pc |-> "error"]
             ELSE IF ~s.ok THEN [file |-> file \o h.bytes \o d.bytes, pc |-> "error"]
             ELSE WriteSigs(Tail(sigs), file \o h.bytes \o d.bytes \o s.bytes)

IndexDocs == [hash : {1, 2}, windows : WindowCounts]

\* __call__, lines 89-91: one turn of the loop over the documents
IndexDoc ==
    /\ codec.pc = "call"
    /\ codec.data # <<>>
    /\ codec' = [codec EXCEPT
                    !.data = Tail(@),
                    !.seen = Append(@, [doc |-> Head(codec.data), doc_idx |-> codec.doc_idx]),
                    !.signatures = @ \o get_hashes_indexed(Head(codec.data), codec.doc_idx),
                    !.doc_idx = WideInc(@)]
    /\ UNCHANGED <<data, signatures, sig_files, find, dup_files, filt, history, filterVars, toolVars>>

\* __call__, line 92: save_hashes(rank)
IndexSave ==
    /\ codec.pc = "call"
    /\ codec.data = <<>>
    /\ LET w == WriteSigs(SortIndexSigs(codec.signatures), <<>>)
       IN  codec' = [codec EXCEPT !.signatures = SortIndexSigs(@),
                                  !.file = w.file, !.pc = w.pc]
    /\ UNCHANGED <<data, signatures, sig_files, find, dup_files, filt, history, filterVars, toolVars>>

\* the shard's documents; the enumeration stands at 0 or, after 2^32 - 1
\* documents of fewer than n_sentences sentences, at 2^32 - 1
InitIndex ==
    /\ DedupIdle
    /\ ToolsIdle
    /\ FiltersIdle
    /\ \E docs \in SeqsUpTo(IndexDocs, 0, MaxIndexDocs), start \in {WideZero, WideTwoTo32Less1} :
         codec = [pc |-> "call", data |-> docs, seen |-> <<>>, doc_idx |-> start,
                  signatures |-> <<>>, file |-> <<>>]

NextIndex ==
    \/ IndexDoc
    \/ IndexSave

SpecIndex == InitIndex /\ [][NextIndex]_vars

\* the indices of a signature fit their fields
InRange(hs) == hs.doc_id[3] = 0 /\ hs.sent_id < 65536

\* the complete records of the file written
FileRecords == ReadAll(codec.file, 0, SigWidths)

\* C18: a document with more than 2^16 windows or an index of 2^32 or more
\* is rejected or truncated before its signatures are generated: no
\* signature with an out-of-range index is generated, no record of the file
\* carries an index other than the one generated (nothing wraps), and every
\* signature of the documents that are in range is in the file.
C18_OverflowRejectedBeforeGeneration ==
    codec.pc \in {"saved", "error"} =>
        /\ \A i \in DOMAIN codec.signatures : InRange(codec.signatures[i])
        /\ \A k \in DOMAIN FileRecords :
              \E i \in DOMAIN codec.signatures :
                 LET hs == codec.signatures[i]
                 IN  FileRecords[k] = <<ToWide(hs.hash_value, 4),
                                        SubSeq(hs.doc_id, 1, 2), <<hs.sent_id>>>>
                     /\ InRange(hs)
        /\ \A j \in DOMAIN codec.seen :
              LET sigs == get_hashes_indexed(codec.seen[j].doc, codec.seen[j].doc_idx)
              IN  (\A i \in DOMAIN sigs : InRange(sigs[i])) =>
                     \A i \in DOMAIN sigs :
                        \E k \in DOMAIN FileRecords :
                           FileRecords[k] = <<ToWide(sigs[i].hash_value, 4),
                                              SubSeq(sigs[i].doc_id, 1, 2), <<sigs[i].sent_id>>>>

----------------------------------------------------------------------------
(* Stage 2: the heap of the merge loop *)

\* every signature file lists its records in ascending order
InputsSorted ==
    \A f \in DOMAIN sig_files :
       LET recs == ReadAll(sig_files[f], 0, SigWidths)
       IN  \A i \in 1 .. (Len(recs) - 1) :
              ~HashSigLt(SigOf(recs[i + 1], 0), SigOf(recs[i], 0))

\* C19: at every turn of the merge loop the heap holds at most one record of
\* each signature file, so no more records than there are files, and, the
\* files being sorted, the records popped so far are in non-decreasing order.
C19_HeapOnePerFile ==
    find.pc \in {"loop", "done", "failed"} =>
        /\ Len(find.pq) <= Len(find.listing)
        /\ \A i, j \in DOMAIN find.pq :
              find.pq[i].file_id = find.pq[j].file_id => i = j
        /\ InputsSorted =>
              \A i \in 1 .. (Len(find.popped) - 1) :
                 ~HashSigLt(find.popped[i + 1], find.popped[i])

\* the loop has popped records of two files and holds a record of each
C19_Witness ==
    /\ find.pc = "loop"
    /\ Len(find.pq) = Len(find.listing)
    /\ Len(find.listing) >= 2
    /\ InputsSorted
    /\ \E i, j \in DOMAIN find.popped :
          i < j /\ find.popped[i].file_id # find.popped[j].file_id

----------------------------------------------------------------------------
(* find_all_duplicate, turn by turn *)

MaxScanWords == 5
MaxN == 3

\* the words of a list: the empty word, words of one and of two characters
ScanWords == {<<>>, <<"a">>, <<"b">>, <<"a", "a">>, <<"a", "b">>}

\* lines 61-68: one turn of "while idx < n_words - n + 1"; counted keeps the
\* start of every window taken as a repeat
ScanStep ==
    /\ scan.pc = "loop"
    /\ scan.idx < Len(scan.words) - scan.n + 1
    /\ LET st == ScanTurn(scan.words, scan.n, scan)
       IN  scan' = [st EXCEPT !.counted =
                       IF st.unique = scan.unique THEN @ \cup {scan.idx} ELSE @]
    /\ UNCHANGED <<toolVars, dedupVars, codec, quality, driver>>

\* lines 69-70: the loop is left, the assertion is evaluated, the total returned
ScanExit ==
    /\ scan.pc = "loop"
    /\ ~(scan.idx < Len(scan.words) - scan.n + 1)
    /\ scan' = [scan EXCEPT !.pc = IF ScanAssertion(scan.words, scan)
                                   THEN "returned" ELSE "AssertionError"]
    /\ UNCHANGED <<toolVars, dedupVars, codec, quality, driver>>

InitScan ==
    /\ DedupIdle
    /\ ToolsIdle
    /\ codec = CodecIdle
    /\ quality = QualityIdle
    /\ driver = DriverIdle
    /\ \E words \in SeqsUpTo(ScanWords, 0, MaxScanWords), n \in 1 .. MaxN :
         scan = [pc |-> "loop", words |-> words, n |-> n, counted |-> {}] @@ ScanStart

NextScan ==
    \/ ScanStep
    \/ ScanExit

\* a call of find_all_duplicate runs on until it returns or raises
SpecScan == InitScan /\ [][NextScan]_vars /\ WF_vars(NextScan)

\* the windows counted as repeats do not overlap
CountedApart ==
    \A i, j \in scan.counted : i < j => i + scan.n <= j

\* C20: for every word list and every n >= 1 the scan comes to its end and
\* returns, its assertion holding: the repeated-character total is at most
\* the number of characters of all the words, the windows counted as repeats
\* being pairwise disjoint.
C20_ScanTerminatesWithinTotal ==
    <>(/\ scan.pc = "returned"
       /\ scan.repeated_chars <= StrLen(StrJoin(<<>>, scan.words))
       /\ CountedApart)

\* a scan that returned after counting two windows of the same list
C20_Witness ==
    /\ scan.pc = "returned"
    /\ Cardinality(scan.counted) >= 2
    /\ scan.n >= 2
    /\ scan.repeated_chars > 0

----------------------------------------------------------------------------
(* Stage 2 with a signature file of no records *)

\* some shard's signature file holds no record
SomeFileEmpty == \E r \in DOMAIN sig_files : sig_files[r] = <<>>

\* C21: when the signature file of some shard holds no record, stage 2 still
\* runs to its end without an error, and what it has flagged by then is what
\* the records of the other files call for: every record that is not the
\* least of its hash value, once, in the duplicate file of its shard.
C21_EmptySignatureFileTolerated ==
    (find.pc # "idle" /\ SomeFileEmpty) =>
        /\ find.pc # "failed"
        /\ find.pc = "done" =>
              LET all == AllSigs
              IN  \A x \in all :
                     TimesIn(x, Written(x.shard)) = (IF IsCanonical(x, all) THEN 0 ELSE 1)

----------------------------------------------------------------------------
(* Stage 1: one instance of SentenceDedupSignature called for several shards *)

\* the instance made once and called for a shard that has no file yet
ReuseSignature == \E r \in Shards : r \notin DOMAIN sig_files /\ Signature(0, r)

NextReuse == ReuseSignature

SpecReuse == Init /\ [][NextReuse]_vars

\* the signatures of the documents of shard rank alone, as get_hashes emits them
EmittedFor(rank) ==
    Concat([i \in DOMAIN data[rank] |-> get_hashes(data[rank][i], i - 1)])

\* C22: the signature file a call of stage 1 writes for a shard holds the
\* signatures of the documents passed to that call and no others, also when
\* the same instance is called for several shards in turn.
C22_FileHoldsOwnShardOnly ==
    \A r \in DOMAIN sig_files : sig_files[r] = save_hashes(SortSigs(EmittedFor(r)))

----------------------------------------------------------------------------
(* the-data.py: run() on every host, batch after batch *)

MaxHosts == 2
MaxPaths == 100

batch_size == 48

\* every host stepping by one batch, as if it were alone
host_batch_size_single(total_hosts) == batch_size

host_batch_size(total_hosts) == batch_size * total_hosts

\* range(start, stop, step), step > 0: its values in order
PyRange(start, stop, step) ==
    [k \in 1 .. (IF stop <= start THEN 0 ELSE (stop - start + step - 1) \div step) |->
        start + (k - 1) * step]

\* download_warc_paths: the lines of warc.paths, n paths that start with
\* "crawl-data" and, after a final newline, blank strings
WarcPaths(n, blanks) == [i \in 1 .. (n + blanks) |-> IF i <= n THEN "crawl-data" ELSE ""]

\* download_warc_file for the path of index i: cc is the directory, st.cc.files
\* the indices of the paths whose file stands in it
download_warc_file(i, st) ==
    IF st.cc.exists /\ i \in st.cc.files THEN st
    ELSE IF ~st.cc.exists THEN [st EXCEPT !.pc = "FileNotFoundError"]
    ELSE [st EXCEPT !.cc.files = @ \cup {i}]

\* process_warc_batch, lines 57-61: the loop from index i up to stop
RECURSIVE ProcessFrom(_, _, _, _)
ProcessFrom(warc_paths, i, stop, st) ==
    IF i >= stop \/ st.pc = "FileNotFoundError" THEN st
    ELSE LET got == [st EXCEPT !.accessed = @ \cup {i}]
         IN  ProcessFrom(warc_paths, i + 1, stop,
                 IF warc_paths[i + 1] # "crawl-data" THEN got
                 ELSE download_warc_file(i, got))

process_warc_batch(warc_paths, start, end, st) ==
    ProcessFrom(warc_paths, start, Min(end, Len(warc_paths)), st)

HostIds == 0 .. (hosts.total_hosts - 1)

\* the batch starts the loop of run() goes through on host_id
BatchStarts(host_id) ==
    PyRange(host_id * batch_size, Len(hosts.warc_paths), host_batch_size(hosts.total_hosts))

\* lines 65-75: the paths downloaded, "cc" made if it is not there
RunStart(h) ==
    /\ hosts.pc = "run"
    /\ hosts.host[h].pc = "start"
    /\ hosts' = [hosts EXCEPT !.host[h].pc = "loop", !.host[h].cc.exists = TRUE]
    /\ UNCHANGED <<dedupVars, codec, filterVars, reader>>

\* lines 77-242: one turn of the loop over the batches: the downloads, the
\* pipelines, the cleanup
RunBatch(h) ==
    /\ hosts.pc = "run"
    /\ hosts.host[h].pc = "loop"
    /\ hosts.host[h].turn < Len(BatchStarts(h))
    /\ LET batch_start == BatchStarts(h)[hosts.host[h].turn + 1]
           batch_end == batch_start + batch_size
           entered == [hosts.host[h] EXCEPT !.turn = @ + 1,
                                            !.batches = @ \cup {batch_start}]
           st == process_warc_batch(hosts.warc_paths, batch_start, batch_end, entered)
       IN  hosts' = [hosts EXCEPT !.host[h] =
                        IF st.pc = "FileNotFoundError" THEN st
                        ELSE [st EXCEPT !.cc = [exists |-> FALSE, files |-> {}],
                                        !.batch_num = @ + 1]]
    /\ UNCHANGED <<dedupVars, codec, filterVars, reader>>

\* the batches are exhausted, run() returns
RunEnd(h) ==
    /\ hosts.pc = "run"
    /\ hosts.host[h].pc = "loop"
    /\ hosts.host[h].turn >= Len(BatchStarts(h))
    /\ hosts' = [hosts EXCEPT !.host[h].pc = "done"]
    /\ UNCHANGED <<dedupVars, codec, filterVars, reader>>

InitRun ==
    /\ DedupIdle
    /\ codec = CodecIdle
    /\ FiltersIdle
    /\ reader = ReaderIdle
    /\ \E total_hosts \in 1 .. MaxHosts, n \in 0 .. MaxPaths, blanks \in 0 .. 1,
          there \in BOOLEAN :
         hosts = [pc |-> "run", total_hosts |-> total_hosts,
                  warc_paths |-> WarcPaths(n, blanks),
                  host |-> [h \in 0 .. (total_hosts - 1) |->
                               [pc |-> "start", turn |-> 0, batch_num |-> 0,
                                cc |-> [exists |-> there, files |-> {}],
                                accessed |-> {}, batches |-> {}]]]

NextRun ==
    \/ \E h \in HostIds : RunStart(h)
    \/ \E h \in HostIds : RunBatch(h)
    \/ \E h \in HostIds : RunEnd(h)

SpecRun == InitRun /\ [][NextRun]_vars

\* C23: in every turn of the batch loop, the second and later ones included,
\* the directory "cc" is there when download_warc_file opens a file in it:
\* no host's run ends in the error of a missing directory.
C23_DownloadDirectoryExists ==
    hosts.pc = "run" => \A h \in HostIds : hosts.host[h].pc # "FileNotFoundError"

\* the hosts whose loop goes through a batch that holds path index i
HostsOf(i) ==
    {h \in HostIds : \E k \in DOMAIN BatchStarts(h) :
        BatchStarts(h)[k] <= i /\ i < BatchStarts(h)[k] + batch_size}

\* C24: every path index below total_files lies in the batch range of exactly
\* one host, so the hosts' batches are disjoint and cover the paths; the
\* batches a host has gone through are batches of its own range, and every
\* index it has read lies in one of them and below total_files.
C24_HostsPartitionPaths ==
    hosts.pc = "run" =>
        /\ \A i \in 0 .. (Len(hosts.warc_paths) - 1) : Cardinality(HostsOf(i)) = 1
        /\ \A h \in HostIds :
              /\ hosts.host[h].batches \subseteq Range(BatchStarts(h))
              /\ hosts.host[h].pc = "done" => hosts.host[h].batches = Range(BatchStarts(h))
              /\ \A i \in hosts.host[h].accessed :
                    /\ i < Len(hosts.warc_paths)
                    /\ HostsOf(i) = {h}
                    /\ \E b \in hosts.host[h].batches : b <= i /\ i < b + batch_size

\* two hosts have run to the end and between them have read every path, the
\* last batch being a short one
C24_Witness ==
    /\ hosts.pc = "run"
    /\ hosts.total_hosts = 2
    /\ \A h \in HostIds : hosts.host[h].pc = "done"
    /\ Len(hosts.warc_paths) > 2 * batch_size
    /\ UNION {hosts.host[h].accessed : h \in HostIds} = 0 .. (Len(hosts.warc_paths) - 1)

----------------------------------------------------------------------------
(* Readers: BaseReader.__call__ / read_files_shard over JsonlReader.read_file *)

MaxShardFiles == 2
MaxJsonLines == 3
MaxLimit == 3
MaxUpstream == 1

\* a line of a file: the fields of a document, text that json.loads rejects
\* (or an EOFError), or JSON that Document(**d) does not take
LineKinds_jsonl == {"doc", "bad", "value"}

\* a limit that lets one document too many through
LimitReached_late(limit, li) == limit # -1 /\ li > limit

\* base.py line 30
LimitReached(limit, li) == limit # -1 /\ li >= limit

\* read_files_shard, lines 29-33: the document read_file has just yielded
TakeDocument(st) ==
    IF LimitReached(st.limit, st.li) THEN [st EXCEPT !.pc = "done"]
    ELSE [st EXCEPT !.out = Append(@, <<st.fi, st.document>>), !.li = @ + 1]

\* an except clause that falls through to the yield with the document of
\* an earlier line
ExceptContinue_pass(st) ==
    IF st.document = None THEN [st EXCEPT !.pc = "UnboundLocalError"]
    ELSE TakeDocument(st)

\* jsonl.py lines 28-30: the warning and "continue": nothing is yielded
ExceptContinue(st) == st

\* BaseReader.__call__, lines 36-37: "if data: yield from data", a document
\* at a time, then on to the files of the shard
ReaderUpstream ==
    /\ reader.pc = "data"
    /\ reader' = IF reader.k < Len(reader.data)
                 THEN [reader EXCEPT !.k = @ + 1,
                                     !.out = Append(@, <<0, reader.data[reader.k + 1]>>)]
                 ELSE [reader EXCEPT !.pc = "shard"]
    /\ UNCHANGED <<dedupVars, codec, filterVars, hosts>>

\* read_file, lines 22-31, and the loop body of read_files_shard: one line
\* of the file being read
ReaderLine ==
    /\ reader.pc = "shard"
    /\ reader.fi <= Len(reader.shard)
    /\ reader.line < Len(reader.shard[reader.fi])
    /\ LET kind == reader.shard[reader.fi][reader.line + 1]
           read == [reader EXCEPT !.line = @ + 1]
       IN  reader' =
               CASE kind = "doc" -> TakeDocument([read EXCEPT !.document = reader.line])
                 [] kind = "bad" -> ExceptContinue(read)
                 [] OTHER -> [read EXCEPT !.pc = "TypeError"]
    /\ UNCHANGED <<dedupVars, codec, filterVars, hosts>>

\* the file is exhausted: read_file returns, the next datafile is taken
ReaderNextFile ==
    /\ reader.pc = "shard"
    /\ reader.fi <= Len(reader.shard)
    /\ reader.line = Len(reader.shard[reader.fi])
    /\ reader' = [reader EXCEPT !.fi = @ + 1, !.line = 0, !.document = None]
    /\ UNCHANGED <<dedupVars, codec, filterVars, hosts>>

\* the shard is exhausted
ReaderEnd ==
    /\ reader.pc = "shard"
    /\ reader.fi > Len(reader.shard)
    /\ reader' = [reader EXCEPT !.pc = "done"]
    /\ UNCHANGED <<dedupVars, codec, filterVars, hosts>>

InitReader ==
    /\ DedupIdle
    /\ codec = CodecIdle
    /\ FiltersIdle
    /\ hosts = HostsIdle
    /\ \E limit \in -1 .. MaxLimit,
          shard \in SeqsUpTo(SeqsUpTo(LineKinds_jsonl, 0, MaxJsonLines), 0, MaxShardFiles),
          n \in 0 .. MaxUpstream :
         reader = [pc |-> "data", limit |-> limit, shard |-> shard,
                   data |-> [i \in 1 .. n |-> i], k |-> 0,
                   fi |-> 1, line |-> 0, li |-> 0, document |-> None, out |-> <<>>]

NextReader ==
    \/ ReaderUpstream
    \/ ReaderLine
    \/ ReaderNextFile
    \/ ReaderEnd

SpecReader == InitReader /\ [][NextReader]_vars

\* the documents of the lines of file fi from line number from on
RECURSIVE FileDocs(_, _, _)
FileDocs(lines, fi, from) ==
    IF from >= Len(lines) THEN <<>>
    ELSE (IF lines[from + 1] = "doc" THEN <<<<fi, from>>>> ELSE <<>>)
         \o FileDocs(lines, fi, from + 1)

\* the documents of the shard's files, in file order
ShardDocs == Concat([fi \in DOMAIN reader.shard |-> FileDocs(reader.shard[fi], fi, 0)])

UpstreamDocs == [i \in DOMAIN reader.data |-> <<0, reader.data[i]>>]

IsPrefix(a, b) == Len(a) <= Len(b) /\ a = SubSeq(b, 1, Len(a))

\* C25: with limit = L >= 0 read_files_shard yields the first min(L, total)
\* documents of the shard's files taken in file order, none when L = 0, and
\* no document of a later file after that; with limit = -1 it yields every
\* document of every file, in order.
C25_LimitYieldsFirstDocuments ==
    reader.pc # "idle" =>
        LET limited == IF reader.limit = -1 THEN ShardDocs
                       ELSE SubSeq(ShardDocs, 1, Min(reader.limit, Len(ShardDocs)))
        IN  /\ IsPrefix(reader.out, UpstreamDocs \o limited)
            /\ reader.pc = "done" => reader.out = UpstreamDocs \o limited

\* the limit was reached in the first file while the second still had documents
C25_Witness ==
    /\ reader.pc = "done"
    /\ reader.limit >= 1
    /\ Len(reader.shard) = 2
    /\ reader.fi = 1
    /\ FileDocs(reader.shard[2], 2, 0) # <<>>
    /\ Len(reader.out) = Len(reader.data) + reader.limit

\* what has been yielded of file fi
YieldedOf(fi) == SelectSeq(reader.out, LAMBDA d : d[1] = fi)

\* C26: a line that fails JSON decoding yields nothing, neither a document
\* of its own nor once more the document of an earlier line, and the
\* reading goes on: of every file the documents yielded are those of its
\* well-formed lines, each once and in the order of the lines, and all of
\* them once the file has been read to its end.
C26_BadLinesSkipped ==
    (reader.pc # "idle" /\ reader.limit = -1) =>
        \A fi \in DOMAIN reader.shard :
           LET lines == reader.shard[fi]
               upto == IF fi < reader.fi THEN Len(lines)
                       ELSE IF fi = reader.fi THEN reader.line ELSE 0
           IN  /\ reader.pc # "TypeError" =>
                     YieldedOf(fi) = FileDocs(SubSeq(lines, 1, upto), fi, 0)
               /\ IsPrefix(YieldedOf(fi), FileDocs(lines, fi, 0))

\* a file of a document, a line that does not decode and a second document
\* has been read to its end
C26_Witness ==
    /\ reader.pc = "done"
    /\ reader.limit = -1
    /\ \E fi \in DOMAIN reader.shard :
          /\ reader.shard[fi] = <<"doc", "bad", "doc">>
          /\ YieldedOf(fi) = <<<<fi, 0>>, <<fi, 2>>>>

====
